---- MODULE Spec2Model ----
(***************************************************************************)
(* Bridge between the editor's scene and the external engine process:      *)
(* the sync state store (membership snapshot, unsynced groups), the        *)
(* per-tick change detector, orphan cleanup, and the command channel.      *)
(***************************************************************************)
EXTENDS Naturals, Integers, Sequences, FiniteSets, TLC

\* Group names and (mesh) object names of the scenes explored.
Groups == {"G1", "G2"}
Objects == {"A", "B"}

\* Longest member list one entry of a snapshot update carries.
MaxMembers == 2
\* Longest name list one drop_groups_from_snapshot call carries.
MaxNames == 2
\* Most change records one tick's depsgraph.updates carries.
MaxUpdates == 2

\* Most lines the engine puts on its stdout, and most commands written.
MaxLines == 3
MaxSent == 2
\* Request ids the lines carry.
CommandIds == {1, 2}

\* Values an object's scale and rotation take.
ScaleValues == {1, 2}
RotationValues == {0, 1}
Colours == {"NONE", "COLOR_03", "COLOR_04"}

VARIABLES
    group_membership_snapshot,     \* engine_state._group_membership_snapshot
    unsynced_groups,               \* engine_state._unsynced_groups
    is_performing_classification,  \* engine_state._is_performing_classification
    previous_scales,               \* handlers._previous_scales
    previous_rotations,            \* handlers._previous_rotations
    sync_state_keys,               \* names the group registry tracks
    collections,                   \* existing group containers: name -> objects linked
    color_tag,                     \* colour tag of each container
    selected_objects,              \* selected mesh objects
    scale,                         \* obj.scale
    rotation_quaternion,           \* obj.rotation_quaternion
    updates,                       \* depsgraph.updates of the coming tick
    process,                       \* engine._process: "none", "alive" or "exited"
    is_running_flag,               \* engine._is_running
    last,                          \* the operation performed last, with its arguments
    removed,                       \* per group: removals run by the last operation
    expect,                        \* last member set written per key by the current run of merges
    touched,                       \* keys written by the current run of merges
    tick,                          \* what the last tick did
    stdin_lines,                   \* command lines written to the engine's stdin
    stdout_lines,                  \* response lines in the engine's stdout, unread
    pc,                            \* "idle", or "reading" inside send_command's loop
    result,                        \* how the last command call ended
    consumed,                      \* lines the current or last call has read
    arrived,                       \* every line the engine has put on stdout
    expected_id,                   \* wait_for_response's expected_id (0: no wait yet)
    answered,                      \* how many commands an in-order engine has answered
    waiting_for,                   \* position in stdin_lines of the request a wait is for
    awaited,                       \* positions of the requests whose wait has returned
    serialized,                    \* no command was sent while an earlier one of the same
                                   \* id had not been awaited
    classification,                \* obj.classification.<attr> of every object
    engine_expected_state,         \* _engine_expected_state: group -> value last sent
    children,                      \* engine processes spawned by start() and still alive
    signals,                       \* what the last stop() did to the child, in order
    detector,                      \* a hierarchy detection in progress: position and copies
    engine_written                 \* objects whose scale and rotation are as the engine wrote them

storeVars == <<group_membership_snapshot, unsynced_groups, is_performing_classification>>
cacheVars == <<previous_scales, previous_rotations>>
sceneVars == <<sync_state_keys, collections, color_tag, selected_objects, scale,
               rotation_quaternion, updates>>
engineVars == <<process, is_running_flag, children>>
ghostVars == <<last, removed, expect, touched, tick>>
chanVars == <<stdin_lines, stdout_lines, pc, result, consumed, arrived, expected_id>>
corrVars == <<answered, waiting_for, awaited, serialized>>
attrVars == <<classification, engine_expected_state>>
restVars == <<corrVars, attrVars, signals, detector, engine_written>>
vars == <<storeVars, cacheVars, sceneVars, engineVars, ghostVars, chanVars, corrVars, attrVars,
          signals, detector, engine_written>>

----------------------------------------------------------------------------
\* Generic helpers.

Range(s) == {s[i] : i \in 1..Len(s)}

SeqsUpTo(S, n) == UNION {[1..k -> S] : k \in 0..n}

EmptyMap == [k \in {} |-> {}]

NoRemovals == [g \in Groups |-> 0]

RECURSIVE KeyList(_)
\* list(d.keys()): the keys of a dict, each once, in one fixed order.
KeyList(D) ==
    IF D = {} THEN << >>
    ELSE LET k == CHOOSE x \in D : TRUE IN <<k>> \o KeyList(D \ {k})

\* Member lists and snapshot arguments a caller can pass.
MemberLists == SeqsUpTo(Objects, MaxMembers)
Partials == UNION {[D -> MemberLists] : D \in SUBSET Groups}
NameLists == SeqsUpTo(Groups, MaxNames)

\* The member sets a snapshot argument names.
MemberSets(partial) == [k \in DOMAIN partial |-> Range(partial[k])]

----------------------------------------------------------------------------
\* Sync state store (engine_state.py).  The operators act on a record of the
\* program's state (see World below); the store's part of it is snap (the
\* snapshot dict), uns (the unsynced set) and cnt (per group, how many
\* removals the call has run).

RECURSIVE drop_groups_from_snapshot(_, _)
drop_groups_from_snapshot(st, group_names) ==
    IF group_names = << >> THEN st
    ELSE LET name == Head(group_names) IN
         drop_groups_from_snapshot(
             [st EXCEPT !.snap = [k \in DOMAIN st.snap \ {name} |-> st.snap[k]],
                        !.uns  = st.uns \ {name},
                        !.cnt  = [st.cnt EXCEPT ![name] = @ + 1]],
             Tail(group_names))

RECURSIVE snapshot_items_keep_first(_, _, _)
\* Variant: an entry already present is kept (setdefault) and its flag stays.
snapshot_items_keep_first(st, snapshot, names) ==
    IF names = << >> THEN st
    ELSE LET name == Head(names) IN
         snapshot_items_keep_first(
             IF name \in DOMAIN st.snap THEN st
             ELSE [st EXCEPT !.snap = [k \in DOMAIN st.snap \cup {name} |->
                                          IF k = name THEN Range(snapshot[name])
                                          ELSE st.snap[k]],
                             !.uns = st.uns \ {name}],
             snapshot, Tail(names))

RECURSIVE snapshot_items_loop(_, _, _)
\* for name, members in snapshot.items(): ...
snapshot_items_loop(st, snapshot, names) ==
    IF names = << >> THEN st
    ELSE LET name == Head(names)
             member_set == Range(snapshot[name])
         IN snapshot_items_loop(
                [st EXCEPT !.snap = [k \in DOMAIN st.snap \cup {name} |->
                                        IF k = name THEN member_set ELSE st.snap[k]],
                           !.uns = st.uns \ {name}],
                snapshot, Tail(names))

\* Variant: replace mode clears the dict without running the removals.
update_snapshot_clear_only(st, snapshot, replace) ==
    snapshot_items_loop(IF replace THEN [st EXCEPT !.snap = EmptyMap] ELSE st,
                        snapshot, KeyList(DOMAIN snapshot))

update_group_membership_snapshot(st, snapshot, replace) ==
    LET start == IF replace
                 THEN [drop_groups_from_snapshot(st, KeyList(DOMAIN st.snap))
                          EXCEPT !.snap = EmptyMap]
                 ELSE st
    IN snapshot_items_loop(start, snapshot, KeyList(DOMAIN snapshot))

flag_group_unsynced(st, group_name) ==
    IF group_name # "" THEN [st EXCEPT !.uns = st.uns \cup {group_name}] ELSE st

clear_group_unsynced(st, group_name) ==
    [st EXCEPT !.uns = st.uns \ {group_name}]

----------------------------------------------------------------------------
\* The program's state as one record, so that each handler is an operator
\* from state to state.

World ==
    [snap |-> group_membership_snapshot,
     uns |-> unsynced_groups,
     cnt |-> NoRemovals,
     performing |-> is_performing_classification,
     prev_scales |-> previous_scales,
     prev_rotations |-> previous_rotations,
     managed |-> sync_state_keys,
     coll |-> collections,
     color |-> color_tag,
     selected |-> selected_objects,
     scale |-> scale,
     rotation |-> rotation_quaternion,
     process |-> process,
     is_running |-> is_running_flag,
     children |-> children,
     flagged |-> {}]

SetWorld(w) ==
    /\ group_membership_snapshot' = w.snap
    /\ unsynced_groups' = w.uns
    /\ is_performing_classification' = w.performing
    /\ previous_scales' = w.prev_scales
    /\ previous_rotations' = w.prev_rotations
    /\ sync_state_keys' = w.managed
    /\ collections' = w.coll
    /\ color_tag' = w.color
    /\ selected_objects' = w.selected
    /\ scale' = w.scale
    /\ rotation_quaternion' = w.rotation
    /\ process' = w.process
    /\ is_running_flag' = w.is_running
    /\ children' = w.children

----------------------------------------------------------------------------
\* Group registry.

\* Current memberships read from the live containers the registry tracks.
get_group_membership_snapshot(w) ==
    [g \in {x \in w.managed : x \in DOMAIN w.coll} |-> w.coll[g]]

get_sync_state_keys(w) == w.managed

\* Flag the group in the store and colour its container; w.flagged logs the call.
set_group_unsynced(w, group_name) ==
    IF group_name = "" THEN w
    ELSE [flag_group_unsynced(w, group_name) EXCEPT
             !.color = [g \in Groups |->
                          IF g = group_name /\ g \in w.managed /\ g \in DOMAIN w.coll
                          THEN "COLOR_03" ELSE w.color[g]],
             !.flagged = w.flagged \cup {group_name}]

\* Orphans: tracked names whose container is gone or empty.
update_orphaned_groups(w) ==
    KeyList({g \in w.managed : g \notin DOMAIN w.coll \/ w.coll[g] = {}})

\* The registry forgets the names and drops them from the sync state store.
group_mgr_drop_groups(w, names) ==
    [drop_groups_from_snapshot(w, names) EXCEPT !.managed = w.managed \ Range(names)]

\* Unsynced groups keep their highlight.
update_colors(w) ==
    [w EXCEPT !.color = [g \in Groups |->
                            IF g \in w.uns /\ g \in w.managed /\ g \in DOMAIN w.coll
                            THEN "COLOR_03" ELSE w.color[g]]]

\* GroupManager.set_group_name: link the object into the group's container
\* (created and tagged on first use) and unlink it from every other tagged one.
set_group_name(w, obj, group_name) ==
    LET members == IF group_name \in DOMAIN w.coll THEN w.coll[group_name] ELSE {}
        tagged == w.managed \cup {group_name}
    IN [w EXCEPT
          !.managed = tagged,
          !.coll = [g \in DOMAIN w.coll \cup {group_name} |->
                       IF g = group_name THEN members \cup {obj}
                       ELSE IF g \in tagged THEN w.coll[g] \ {obj}
                       ELSE w.coll[g]]]

\* reset_state(): the registry forgets every name.
reset_state(w) == [w EXCEPT !.managed = {}]

----------------------------------------------------------------------------
\* Engine process and the outcome of one command exchange.

\* Variant: the flag alone decides.
is_running_flag_only(w) == w.is_running

\* Variant: the handle alone decides, the child's exit is not polled.
is_running_handle_only(w) == w.is_running /\ w.process # "none"

is_running(w) == w.is_running /\ w.process = "alive"

\* start(): can_launch says whether the binary is found and spawns.
\* Variant: a child is spawned whether or not one is already running.
start_always_spawns(w, can_launch) ==
    IF can_launch
    THEN [ok |-> TRUE, w |-> [w EXCEPT !.process = "alive", !.is_running = TRUE,
                                       !.children = @ + 1]]
    ELSE [ok |-> w.is_running, w |-> w]

\* Variant: a failed launch still sets the running flag.
start_flags_failure(w, can_launch) ==
    IF w.is_running THEN [ok |-> TRUE, w |-> w]
    ELSE IF can_launch
         THEN [ok |-> TRUE, w |-> [w EXCEPT !.process = "alive", !.is_running = TRUE,
                                            !.children = @ + 1]]
         ELSE [ok |-> FALSE, w |-> [w EXCEPT !.is_running = TRUE]]

start(w, can_launch) ==
    IF w.is_running THEN [ok |-> TRUE, w |-> w]
    ELSE IF can_launch
         THEN [ok |-> TRUE, w |-> [w EXCEPT !.process = "alive", !.is_running = TRUE,
                                            !.children = @ + 1]]
         ELSE [ok |-> FALSE, w |-> w]

\* stop(): the handle and the flag are cleared.
stop(w) ==
    IF ~w.is_running \/ w.process = "none" THEN w
    ELSE [w EXCEPT !.process = "none", !.is_running = FALSE,
                   !.children = IF w.process = "alive" THEN @ - 1 ELSE @]

\* get_engine_communicator(): ok = FALSE stands for the RuntimeError raised.
get_engine_communicator(w, can_launch) ==
    IF ~is_running(w) THEN start(w, can_launch) ELSE [ok |-> TRUE, w |-> w]

\* Outcomes of send_command: a terminal line with ok true (carrying a
\* dropped_count), a terminal line with ok false, or a communication error.
Replies == [kind : {"ok"}, dropped_count : 0..MaxNames]
             \cup [kind : {"error", "raise"}, dropped_count : {0}]

\* PivotEngine.drop_groups: the count the engine reports, or -1.
engine_drop_groups(w, group_names, reply) ==
    IF group_names = << >> THEN 0
    ELSE IF ~is_running(w) THEN -1
    ELSE IF reply.kind = "raise" THEN -1
    ELSE IF reply.kind # "ok" THEN -1
    ELSE reply.dropped_count

----------------------------------------------------------------------------
\* Change detector (handlers.py).

\* Variant: the pass re-derives the flags from what it reads, so a group whose
\* membership matches again loses its flag.
hierarchy_resync(w, current_snapshot, expected_snapshot, names) ==
    LET differs(g) == expected_snapshot[g] #
                          (IF g \in DOMAIN current_snapshot THEN current_snapshot[g] ELSE {})
        stale == {g \in Range(names) : ~differs(g)}
    IN [w EXCEPT !.uns = (w.uns \ stale) \cup {g \in Range(names) : differs(g)},
                 !.flagged = w.flagged \cup {g \in Range(names) : differs(g)}]

RECURSIVE hierarchy_loop(_, _, _, _)
hierarchy_loop(w, current_snapshot, expected_snapshot, names) ==
    IF names = << >> THEN w
    ELSE LET group_name == Head(names)
             expected_members == expected_snapshot[group_name]
             current_members == IF group_name \in DOMAIN current_snapshot
                                THEN current_snapshot[group_name] ELSE {}
         IN hierarchy_loop(
                IF expected_members # current_members
                THEN set_group_unsynced(w, group_name) ELSE w,
                current_snapshot, expected_snapshot, Tail(names))

\* Variant: groups live in the scene but absent from the snapshot are flagged
\* too.
detect_all_groups(w) ==
    LET current == get_group_membership_snapshot(w)
        unseen == {g \in DOMAIN current : g \notin DOMAIN w.snap /\ current[g] # {}}
        expected == [g \in DOMAIN w.snap \cup unseen |->
                        IF g \in DOMAIN w.snap THEN w.snap[g] ELSE {}]
    IN hierarchy_loop(w, current, expected, KeyList(DOMAIN expected))

detect_collection_hierarchy_changes(w) ==
    hierarchy_loop(w, get_group_membership_snapshot(w), w.snap, KeyList(DOMAIN w.snap))

\* obj_to_groups[obj]: the tracked containers the object is linked into.
obj_to_groups(w, obj) ==
    {g \in get_sync_state_keys(w) : g \in DOMAIN w.coll /\ obj \in w.coll[g]}

\* Variant: rotation is not compared with its cached value.
should_mark_no_rotation(w, update, group_name, expected_snapshot, current_snapshot) ==
    LET obj == update.obj
        has_expected == group_name \in DOMAIN expected_snapshot
        member_count == IF has_expected
                        THEN Cardinality(expected_snapshot[group_name])
                        ELSE 0
        scale_changed == obj \in DOMAIN w.prev_scales
                         /\ w.scale[obj] # w.prev_scales[obj]
    IN \/ ~has_expected
       \/ update.is_updated_geometry
       \/ scale_changed
       \/ (update.is_updated_transform /\ member_count > 1)

\* Variant: a transform change flags the group whatever its size.
should_mark_any_transform(w, update, group_name, expected_snapshot, current_snapshot) ==
    LET obj == update.obj
        scale_changed == obj \in DOMAIN w.prev_scales
                         /\ w.scale[obj] # w.prev_scales[obj]
        rotation_changed == obj \in DOMAIN w.prev_rotations
                            /\ w.rotation[obj] # w.prev_rotations[obj]
    IN \/ group_name \notin DOMAIN expected_snapshot
       \/ update.is_updated_geometry
       \/ scale_changed
       \/ rotation_changed
       \/ update.is_updated_transform

\* A variant that takes a missing cache entry for a change.
should_mark_uncached(w, update, group_name, expected_snapshot, current_snapshot) ==
    LET obj == update.obj
        has_expected == group_name \in DOMAIN expected_snapshot
        current_members == IF group_name \in DOMAIN current_snapshot
                           THEN current_snapshot[group_name] ELSE {}
        member_count == IF has_expected
                        THEN Cardinality(expected_snapshot[group_name])
                        ELSE Cardinality(current_members)
        scale_changed == obj \notin DOMAIN w.prev_scales
                         \/ w.scale[obj] # w.prev_scales[obj]
        rotation_changed == obj \notin DOMAIN w.prev_rotations
                            \/ w.rotation[obj] # w.prev_rotations[obj]
    IN \/ ~has_expected
       \/ update.is_updated_geometry
       \/ scale_changed
       \/ rotation_changed
       \/ (update.is_updated_transform /\ member_count > 1)

should_mark_unsynced(w, update, group_name, expected_snapshot, current_snapshot) ==
    LET obj == update.obj
        has_expected == group_name \in DOMAIN expected_snapshot
        current_members == IF group_name \in DOMAIN current_snapshot
                           THEN current_snapshot[group_name] ELSE {}
        member_count == IF has_expected
                        THEN Cardinality(expected_snapshot[group_name])
                        ELSE Cardinality(current_members)
        scale_changed == obj \in DOMAIN w.prev_scales
                         /\ w.scale[obj] # w.prev_scales[obj]
        rotation_changed == obj \in DOMAIN w.prev_rotations
                            /\ w.rotation[obj] # w.prev_rotations[obj]
    IN \/ ~has_expected
       \/ update.is_updated_geometry
       \/ scale_changed
       \/ rotation_changed
       \/ (update.is_updated_transform /\ member_count > 1)

RECURSIVE mark_groups_loop(_, _, _, _, _, _)
\* for group_name in group_names: ... (the caches are those of the loop's start)
mark_groups_loop(w, w0, update, names, expected_snapshot, current_snapshot) ==
    IF names = << >> THEN w
    ELSE mark_groups_loop(
             IF should_mark_unsynced(w0, update, Head(names), expected_snapshot,
                                     current_snapshot)
             THEN set_group_unsynced(w, Head(names)) ELSE w,
             w0, update, Tail(names), expected_snapshot, current_snapshot)

RECURSIVE updates_loop(_, _, _, _, _)
updates_loop(w, ups, found, expected_snapshot, current_snapshot) ==
    IF ups = << >> THEN w
    ELSE LET update == Head(ups)
             obj == update.obj
         IN IF ~(update.is_updated_geometry \/ update.is_updated_transform)
               \/ obj \notin found
            THEN updates_loop(w, Tail(ups), found, expected_snapshot, current_snapshot)
            ELSE LET marked == mark_groups_loop(w, w, update,
                                   KeyList(obj_to_groups(w, obj)),
                                   expected_snapshot, current_snapshot)
                     cached == [marked EXCEPT
                                  !.prev_scales =
                                      [o \in DOMAIN w.prev_scales \cup {obj} |->
                                          IF o = obj THEN w.scale[obj]
                                          ELSE w.prev_scales[o]],
                                  !.prev_rotations =
                                      [o \in DOMAIN w.prev_rotations \cup {obj} |->
                                          IF o = obj THEN w.rotation[obj]
                                          ELSE w.prev_rotations[o]]]
                 IN updates_loop(cached, Tail(ups), found, expected_snapshot,
                                 current_snapshot)

unsync_mesh_changes(w, ups) ==
    LET all_selected_mesh == w.selected
        found == {obj \in all_selected_mesh : obj_to_groups(w, obj) # {}}
    IN IF all_selected_mesh = {} THEN w
       ELSE IF found = {} THEN w
       ELSE updates_loop(w, ups, found, w.snap, get_group_membership_snapshot(w))

\* Variant: the local cleanup does not wait for the engine's answer.
enforce_colors_unconditional(w, can_launch, reply) ==
    LET orphaned_groups == update_orphaned_groups(w)
        comm == get_engine_communicator(w, can_launch)
    IN update_colors(
           IF orphaned_groups = << >> THEN w
           ELSE group_mgr_drop_groups(
                    [comm.w EXCEPT !.color =
                        [g \in Groups |->
                            IF g \in Range(orphaned_groups) /\ g \in DOMAIN w.coll
                            THEN "NONE" ELSE w.color[g]]],
                    orphaned_groups))

\* Variant: the local cleanup runs only when the engine reports as many drops
\* as names were sent.
enforce_colors_counted(w, can_launch, reply) ==
    LET orphaned_groups == update_orphaned_groups(w)
        comm == get_engine_communicator(w, can_launch)
        dropped_count == IF comm.ok
                         THEN engine_drop_groups(comm.w, orphaned_groups, reply)
                         ELSE -1
        cleaned ==
            IF orphaned_groups = << >> THEN w
            ELSE IF ~comm.ok THEN comm.w
            ELSE IF dropped_count = Len(orphaned_groups)
                 THEN group_mgr_drop_groups(
                          [comm.w EXCEPT !.color =
                              [g \in Groups |->
                                  IF g \in Range(orphaned_groups) /\ g \in DOMAIN w.coll
                                  THEN "NONE" ELSE w.color[g]]],
                          orphaned_groups)
                 ELSE comm.w
    IN update_colors(cleaned)

\* enforce_colors: orphan cleanup, then the colour refresh.
enforce_colors(w, can_launch, reply) ==
    LET orphaned_groups == update_orphaned_groups(w)
        comm == get_engine_communicator(w, can_launch)
        dropped_count == IF comm.ok
                         THEN engine_drop_groups(comm.w, orphaned_groups, reply)
                         ELSE -1
        cleaned ==
            IF orphaned_groups = << >> THEN w
            ELSE IF ~comm.ok THEN comm.w
            ELSE IF dropped_count >= 0
                 THEN group_mgr_drop_groups(
                          [comm.w EXCEPT !.color =
                              [g \in Groups |->
                                  IF g \in Range(orphaned_groups) /\ g \in DOMAIN w.coll
                                  THEN "NONE" ELSE w.color[g]]],
                          orphaned_groups)
                 ELSE comm.w
    IN update_colors(cleaned)

\* Variant: the suppression flag is left set by the tick that consumed it.
on_depsgraph_update_latched(w, ups, can_launch, reply) ==
    LET detected ==
            IF w.performing THEN w
            ELSE unsync_mesh_changes(detect_collection_hierarchy_changes(w), ups)
    IN enforce_colors(detected, can_launch, reply)

\* on_depsgraph_update: w.flagged ends as the groups the detector flagged.
on_depsgraph_update(w, ups, can_launch, reply) ==
    LET detected ==
            IF w.performing THEN [w EXCEPT !.performing = FALSE]
            ELSE unsync_mesh_changes(detect_collection_hierarchy_changes(w), ups)
    IN enforce_colors(detected, can_launch, reply)

clear_previous_scales(w) ==
    [w EXCEPT !.prev_scales = EmptyMap, !.prev_rotations = EmptyMap]

\* on_load_post: registry reset, store reset in replace mode, caches cleared.
on_load_post(w) ==
    clear_previous_scales(
        update_group_membership_snapshot(reset_state(w), EmptyMap, TRUE))

\* on_load_pre: pending classifications are flushed through the communicator
\* (which starts the engine when it is not running); failures are swallowed.
on_load_pre(w, has_classifications, can_launch) ==
    IF has_classifications THEN get_engine_communicator(w, can_launch).w ELSE w

----------------------------------------------------------------------------
\* Ghost records.

Last(op, sets, names, name) == [op |-> op, sets |-> sets, names |-> names, name |-> name]

Op(op) == Last(op, EmptyMap, << >>, "")

\* No detection in progress. serial says whether snapshot updates wait for a
\* detection to finish; edited holds the groups whose membership was edited
\* since their last snapshot update, and during the detector's position when
\* the last snapshot update ran.
DetectorIdle ==
    [pc |-> "idle", names |-> << >>, current |-> << >>, expected |-> << >>,
     serial |-> TRUE, edited |-> {}, during |-> "idle"]

NoTick == [suppressed |-> FALSE, records |-> << >>, t1 |-> {}, t2 |-> {},
           orphans |-> {}, reply |-> "none", dropped |-> 0]

\* Any operation other than a merge ends the current run of merges.
EndMergeRun ==
    /\ expect' = group_membership_snapshot'
    /\ touched' = {}

NoResult == [op |-> "none", kind |-> "none", value |-> << >>]

\* No call in progress, nothing written or received yet.
ChannelIdle ==
    /\ stdin_lines = << >>
    /\ stdout_lines = << >>
    /\ pc = "idle"
    /\ result = NoResult
    /\ consumed = << >>
    /\ arrived = << >>
    /\ expected_id = 0
    /\ answered = 0
    /\ waiting_for = 0
    /\ awaited = {}
    /\ serialized = TRUE

\* A freshly opened file: no containers yet, every mesh object selected.
\* Every object starts with the first value and nothing has been sent.
AttributesIdle ==
    /\ classification = [o \in Objects |-> "1"]
    /\ engine_expected_state = EmptyMap

InitialScene ==
    /\ sync_state_keys = {}
    /\ collections = EmptyMap
    /\ color_tag = [g \in Groups |-> "NONE"]
    /\ selected_objects = Objects
    /\ scale = [o \in Objects |-> 1]
    /\ rotation_quaternion = [o \in Objects |-> 0]
    /\ updates = << >>

Init ==
    /\ group_membership_snapshot = EmptyMap
    /\ unsynced_groups = {}
    /\ is_performing_classification = FALSE
    /\ previous_scales = EmptyMap
    /\ previous_rotations = EmptyMap
    /\ InitialScene
    /\ process = "none"
    /\ is_running_flag = FALSE
    /\ children = 0
    /\ signals = << >>
    /\ detector = DetectorIdle
    /\ engine_written = {}
    /\ last = Op("init")
    /\ removed = NoRemovals
    /\ expect = EmptyMap
    /\ touched = {}
    /\ tick = NoTick
    /\ ChannelIdle
    /\ AttributesIdle

----------------------------------------------------------------------------
\* Store-level specification: callers exercise the store API directly.

SetStore(st) ==
    /\ group_membership_snapshot' = st.snap
    /\ unsynced_groups' = st.uns
    /\ removed' = st.cnt
    /\ UNCHANGED <<is_performing_classification, cacheVars, sceneVars, engineVars, tick,
                   chanVars, restVars>>

Merge(partial) ==
    /\ SetStore(update_group_membership_snapshot(World, partial, FALSE))
    /\ last' = Last("merge", MemberSets(partial), << >>, "")
    /\ expect' = [k \in DOMAIN expect \cup DOMAIN partial |->
                     IF k \in DOMAIN partial THEN Range(partial[k]) ELSE expect[k]]
    /\ touched' = touched \cup DOMAIN partial

Replace(partial) ==
    /\ SetStore(update_group_membership_snapshot(World, partial, TRUE))
    /\ last' = Last("replace", MemberSets(partial), << >>, "")
    /\ EndMergeRun

DropFromSnapshot(names) ==
    /\ SetStore(drop_groups_from_snapshot(World, names))
    /\ last' = Last("drop", EmptyMap, names, "")
    /\ EndMergeRun

Flag(name) ==
    /\ SetStore(flag_group_unsynced(World, name))
    /\ last' = Last("flag", EmptyMap, << >>, name)
    /\ EndMergeRun

Clear(name) ==
    /\ SetStore(clear_group_unsynced(World, name))
    /\ last' = Last("clear", EmptyMap, << >>, name)
    /\ EndMergeRun

StoreNext ==
    \/ \E partial \in Partials : Merge(partial)
    \/ \E partial \in Partials : Replace(partial)
    \/ \E names \in NameLists : DropFromSnapshot(names)
    \/ \E name \in Groups \cup {""} : Flag(name)
    \/ \E name \in Groups : Clear(name)

SpecStore == Init /\ [][StoreNext]_vars

----------------------------------------------------------------------------
\* The bridge in the editor: scene edits, operators, ticks and lifecycle hooks.

UpdateRecord(obj, geometry, transform) ==
    [obj |-> obj, is_updated_geometry |-> geometry, is_updated_transform |-> transform]

GhostFrame(op) ==
    /\ last' = Op(op)
    /\ tick' = NoTick
    /\ UNCHANGED <<removed, expect, touched, chanVars, restVars>>

\* A handler or operator ran: the state is what it returned.
Ran(w, op) ==
    /\ SetWorld(w)
    /\ GhostFrame(op)

SceneFrame == UNCHANGED <<storeVars, cacheVars, engineVars, sync_state_keys>>

\* The user links an object into a container (created on first use).
LinkObject(obj, g) ==
    /\ IF g \in DOMAIN collections THEN obj \notin collections[g] ELSE TRUE
    /\ collections' = [x \in DOMAIN collections \cup {g} |->
                          IF x = g
                          THEN (IF g \in DOMAIN collections THEN collections[g] ELSE {})
                                   \cup {obj}
                          ELSE collections[x]]
    /\ UNCHANGED <<color_tag, selected_objects, scale, rotation_quaternion, updates>>
    /\ SceneFrame /\ GhostFrame("edit")

UnlinkObject(obj, g) ==
    /\ g \in DOMAIN collections /\ obj \in collections[g]
    /\ collections' = [collections EXCEPT ![g] = @ \ {obj}]
    /\ UNCHANGED <<color_tag, selected_objects, scale, rotation_quaternion, updates>>
    /\ SceneFrame /\ GhostFrame("edit")

\* The container is deleted or renamed away from the name (on_group_name_changed
\* clears the colour of a renamed container).
RemoveCollection(g) ==
    /\ g \in DOMAIN collections
    /\ collections' = [x \in DOMAIN collections \ {g} |-> collections[x]]
    /\ color_tag' = [color_tag EXCEPT ![g] = "NONE"]
    /\ UNCHANGED <<selected_objects, scale, rotation_quaternion, updates>>
    /\ SceneFrame /\ GhostFrame("edit")

Select(obj) ==
    /\ selected_objects' = IF obj \in selected_objects THEN selected_objects \ {obj}
                           ELSE selected_objects \cup {obj}
    /\ UNCHANGED <<collections, color_tag, scale, rotation_quaternion, updates>>
    /\ SceneFrame /\ GhostFrame("edit")

EditGeometry(obj) ==
    /\ Len(updates) < MaxUpdates
    /\ updates' = Append(updates, UpdateRecord(obj, TRUE, FALSE))
    /\ UNCHANGED <<collections, color_tag, selected_objects, scale, rotation_quaternion>>
    /\ SceneFrame /\ GhostFrame("edit")

\* Move, scale or rotate: the record says transform; s and r are the new values.
Transform(obj, s, r) ==
    /\ Len(updates) < MaxUpdates
    /\ scale' = [scale EXCEPT ![obj] = s]
    /\ rotation_quaternion' = [rotation_quaternion EXCEPT ![obj] = r]
    /\ updates' = Append(updates, UpdateRecord(obj, FALSE, TRUE))
    /\ UNCHANGED <<collections, color_tag, selected_objects>>
    /\ SceneFrame /\ GhostFrame("edit")

\* A change the depsgraph reports as neither geometry nor transform.
OtherUpdate(obj) ==
    /\ Len(updates) < MaxUpdates
    /\ updates' = Append(updates, UpdateRecord(obj, FALSE, FALSE))
    /\ UNCHANGED <<collections, color_tag, selected_objects, scale, rotation_quaternion>>
    /\ SceneFrame /\ GhostFrame("edit")

AssignGroup(obj, g) ==
    /\ Ran(set_group_name(World, obj, g), "edit")
    /\ UNCHANGED updates

\* Groups a standardize operator works on: tracked containers holding a
\* selected object.
SelectedGroups(w) ==
    {g \in w.managed : g \in DOMAIN w.coll /\ w.coll[g] \cap w.selected # {}}

\* A standardize operator whose engine round trip succeeded: the engine's
\* membership is merged into the snapshot, the groups are marked synced, the
\* engine's result is written back into the members' transforms, and the
\* operator sets the suppression flag.
standardize_groups(w) ==
    LET groups == SelectedGroups(w)
        members == UNION {w.coll[g] : g \in groups}
        merged == update_group_membership_snapshot(
                      w, [g \in groups |-> KeyList(w.coll[g])], FALSE)
    IN [merged EXCEPT
          !.color = [g \in Groups |-> IF g \in groups THEN "COLOR_04" ELSE w.color[g]],
          !.rotation = [o \in Objects |-> IF o \in members THEN 0 ELSE w.rotation[o]],
          !.performing = TRUE]

Standardize ==
    /\ is_running(World)
    /\ SelectedGroups(World) # {}
    /\ updates = << >>
    /\ LET w == standardize_groups(World)
           written == {o \in Objects : w.rotation[o] # rotation_quaternion[o]}
       IN /\ Ran(w, "standardize")
          /\ updates' = SubSeq([i \in 1..Cardinality(written) |->
                                   UpdateRecord(KeyList(written)[i], FALSE, TRUE)],
                               1, IF Cardinality(written) < MaxUpdates
                                  THEN Cardinality(written) ELSE MaxUpdates)

Tick(can_launch, reply) ==
    LET w == World
        t1 == IF w.performing THEN w ELSE detect_collection_hierarchy_changes(w)
        t2 == IF w.performing THEN w
              ELSE unsync_mesh_changes([t1 EXCEPT !.flagged = {}], updates)
        orphaned == update_orphaned_groups(
                        IF w.performing THEN w ELSE [t2 EXCEPT !.flagged = {}])
        after == on_depsgraph_update(w, updates, can_launch, reply)
    IN /\ SetWorld(after)
       /\ updates' = << >>
       /\ last' = Op("tick")
       /\ tick' = [suppressed |-> w.performing,
                   records |-> updates,
                   reply |-> reply.kind,
                   t1 |-> t1.flagged,
                   t2 |-> t2.flagged,
                   orphans |-> Range(orphaned),
                   dropped |-> IF orphaned = << >> THEN 0
                               ELSE IF get_engine_communicator(w, can_launch).ok
                                    THEN engine_drop_groups(
                                             get_engine_communicator(w, can_launch).w,
                                             orphaned, reply)
                                    ELSE -1]
       /\ UNCHANGED <<removed, expect, touched, chanVars, restVars>>

LoadPre(has_classifications, can_launch) ==
    /\ Ran(on_load_pre(World, has_classifications, can_launch), "load_pre")
    /\ UNCHANGED updates

\* The new file's scene replaces the old one.
\* The calls on_load_post makes, in order.
load_post_calls == <<"reset_state", "update_group_membership_snapshot", "clear_previous_scales">>

LoadPost ==
    LET w == on_load_post(World) IN
    /\ SetWorld([w EXCEPT !.coll = EmptyMap,
                          !.color = [g \in Groups |-> "NONE"],
                          !.selected = Objects,
                          !.scale = [o \in Objects |-> 1],
                          !.rotation = [o \in Objects |-> 0]])
    /\ last' = Last("load_post", EmptyMap, load_post_calls, "")
    /\ tick' = NoTick
    /\ UNCHANGED <<removed, expect, touched, chanVars, restVars>>
    /\ updates' = << >>

StartEngine(can_launch) ==
    /\ Ran(start(World, can_launch).w, "edit")
    /\ UNCHANGED updates

StopEngine ==
    /\ Ran(stop(World), "edit")
    /\ UNCHANGED updates

\* The engine process exits on its own.
EngineExit ==
    /\ process = "alive"
    /\ process' = "exited"
    /\ children' = children - 1
    /\ UNCHANGED <<storeVars, cacheVars, sceneVars, is_running_flag>>
    /\ GhostFrame("edit")

\* What the engine side can answer in this state: a reply exists only when a
\* request is sent, and a launch is attempted only when the engine is down.
NoReply == [kind |-> "none", dropped_count |-> 0]

RepliesNow == IF update_orphaned_groups(World) = << >> THEN {NoReply} ELSE Replies

LaunchesNow == IF is_running(World) THEN {TRUE} ELSE BOOLEAN

\* The bridge under hierarchy edits, operators, ticks and lifecycle events.
Next ==
    \/ \E obj \in Objects, g \in Groups : LinkObject(obj, g)
    \/ \E obj \in Objects, g \in Groups : UnlinkObject(obj, g)
    \/ \E g \in Groups : RemoveCollection(g)
    \/ \E obj \in Objects, g \in Groups : AssignGroup(obj, g)
    \/ Standardize
    \/ \E can_launch \in LaunchesNow, reply \in RepliesNow : Tick(can_launch, reply)
    \/ \E c \in BOOLEAN, can_launch \in LaunchesNow : LoadPre(c, can_launch)
    \/ LoadPost
    \/ \E can_launch \in LaunchesNow : StartEngine(can_launch)
    \/ StopEngine
    \/ EngineExit

Spec == Init /\ [][Next]_vars

\* A tick whose drop request reached a running engine and was answered ok.
AcknowledgedTick ==
    /\ \E can_launch \in LaunchesNow, reply \in RepliesNow :
           reply.kind = "ok" /\ Tick(can_launch, reply)
    /\ tick'.orphans # {}
    /\ process' = "alive"
    /\ is_running_flag'

\* The bridge with a fair engine: ticks keep arriving, and a drop request that
\* can be sent again and again is eventually answered ok.
SpecFair == Init /\ [][Next]_vars /\ SF_vars(AcknowledgedTick)

\* The bridge under mesh and transform edits of the members of one group, the
\* engine running since registration.
MeshGroups == {"G1"}
Movable == {"A"}

MeshInit ==
    /\ group_membership_snapshot = EmptyMap
    /\ unsynced_groups = {}
    /\ is_performing_classification = FALSE
    /\ previous_scales = EmptyMap
    /\ previous_rotations = EmptyMap
    /\ InitialScene
    /\ process = "alive"
    /\ is_running_flag = TRUE
    /\ children = 1
    /\ signals = << >>
    /\ detector = DetectorIdle
    /\ engine_written = {}
    /\ last = Op("init")
    /\ removed = NoRemovals
    /\ expect = EmptyMap
    /\ touched = {}
    /\ tick = NoTick
    /\ ChannelIdle
    /\ AttributesIdle

MeshNext ==
    \/ \E obj \in Objects, g \in MeshGroups : AssignGroup(obj, g)
    \/ \E obj \in Objects : Select(obj)
    \/ \E obj \in Objects : EditGeometry(obj)
    \/ \E obj \in Movable, s \in ScaleValues, r \in RotationValues : Transform(obj, s, r)
    \/ \E obj \in Objects : OtherUpdate(obj)
    \/ Standardize
    \/ \E reply \in RepliesNow : Tick(TRUE, reply)
    \/ LoadPost

SpecMesh == MeshInit /\ [][MeshNext]_vars

----------------------------------------------------------------------------
\* The operators that send the engine a standardize command.

\* standardize.standardize_objects: the engine's result is written back into
\* the objects' transforms.
standardize_objects(w, objects) ==
    [w EXCEPT !.rotation = [o \in Objects |-> IF o \in objects THEN 0 ELSE w.rotation[o]]]

\* Pivot_OT_Standardize_Selected_Objects.execute
standardize_selected_objects(w) == standardize_objects(w, w.selected)

\* Pivot_OT_Standardize_Active_Object.execute
standardize_active_object(w, obj) == standardize_objects(w, {obj})

\* Pivot_OT_Organize_Classified_Objects.execute: the members of every tracked
\* group are standardized first (a failure is reported and passed over), then
\* the engine is asked for positions; the flag is set when it returned some.
organize_objects(w, standardized, positions) ==
    LET members == UNION {w.coll[g] : g \in w.managed \cap DOMAIN w.coll}
        all == [w EXCEPT !.selected = members]
        first == IF members # {} /\ standardized
                 THEN [standardize_groups(all) EXCEPT !.selected = w.selected,
                                                      !.performing = w.performing]
                 ELSE w
    IN IF positions THEN [first EXCEPT !.performing = TRUE] ELSE first

Operated(op, calls, w) ==
    LET written == {o \in Objects : w.rotation[o] # rotation_quaternion[o]} IN
    /\ is_running(World)
    /\ updates = << >>
    /\ SetWorld(w)
    /\ last' = Last(op, EmptyMap, calls, "")
    /\ tick' = NoTick
    /\ updates' = SubSeq([i \in 1..Cardinality(written) |->
                             UpdateRecord(KeyList(written)[i], FALSE, TRUE)],
                         1, IF Cardinality(written) < MaxUpdates
                            THEN Cardinality(written) ELSE MaxUpdates)
    /\ UNCHANGED <<removed, expect, touched, chanVars, restVars>>

StandardizeSelectedGroups ==
    /\ SelectedGroups(World) # {}
    /\ Operated("standardize_selected_groups", <<"standardize_groups">>,
                standardize_groups(World))

StandardizeSelectedObjects ==
    /\ selected_objects # {}
    /\ Operated("standardize_selected_objects", <<"standardize_objects">>,
                standardize_selected_objects(World))

StandardizeActiveObject(obj) ==
    /\ obj \in selected_objects
    /\ Operated("standardize_active_object", <<"standardize_objects">>,
                standardize_active_object(World, obj))

\* poll(): some group exists.
OrganizeClassifiedObjects(standardized, positions) ==
    /\ sync_state_keys # {}
    /\ Operated("organize_classified_objects",
                IF UNION {collections[g] : g \in sync_state_keys \cap DOMAIN collections} # {}
                THEN <<"standardize_groups", "organize_objects">>
                ELSE <<"organize_objects">>,
                organize_objects(World, standardized, positions))

OpsNext ==
    \/ \E obj \in Objects, g \in MeshGroups : AssignGroup(obj, g)
    \/ \E obj \in Objects : Select(obj)
    \/ \E obj \in Movable, s \in ScaleValues, r \in RotationValues : Transform(obj, s, r)
    \/ StandardizeSelectedGroups
    \/ StandardizeSelectedObjects
    \/ \E obj \in Objects : StandardizeActiveObject(obj)
    \/ \E standardized, positions \in BOOLEAN :
           OrganizeClassifiedObjects(standardized, positions)
    \/ \E reply \in RepliesNow : Tick(TRUE, reply)

SpecOps == MeshInit /\ [][OpsNext]_vars

----------------------------------------------------------------------------
\* Hierarchy detection step by step, with snapshot updates by another caller.

\* Variant: every snapshot entry is taken to differ.
membership_always_differs(expected_members, current_members) == TRUE

\* The comparison of detect_collection_hierarchy_changes.
membership_differs(expected_members, current_members) ==
    expected_members # current_members

LiveIn(w, g) == IF g \in DOMAIN w.coll THEN w.coll[g] ELSE {}

RaceInit ==
    /\ group_membership_snapshot = EmptyMap
    /\ unsynced_groups = {}
    /\ is_performing_classification = FALSE
    /\ previous_scales = EmptyMap
    /\ previous_rotations = EmptyMap
    /\ InitialScene
    /\ process = "alive"
    /\ is_running_flag = TRUE
    /\ children = 1
    /\ signals = << >>
    /\ \E serial \in BOOLEAN : detector = [DetectorIdle EXCEPT !.serial = serial]
    /\ engine_written = {}
    /\ last = Op("init")
    /\ removed = NoRemovals
    /\ expect = EmptyMap
    /\ touched = {}
    /\ tick = NoTick
    /\ ChannelIdle
    /\ AttributesIdle

Raced(op, w, det) ==
    /\ SetWorld(w)
    /\ detector' = det
    /\ UNCHANGED engine_written
    /\ last' = Op(op)
    /\ tick' = NoTick
    /\ UNCHANGED <<updates, removed, expect, touched, chanVars, corrVars, attrVars, signals>>

\* The user moves an object into a group or takes it out of one.
EditMembership(obj, g) ==
    LET w == IF g \in DOMAIN collections /\ obj \in collections[g]
             THEN [World EXCEPT !.coll[g] = @ \ {obj}]
             ELSE set_group_name(World, obj, g)
    IN Raced("edit", w,
             [detector EXCEPT !.edited = @ \cup {x \in Groups : LiveIn(w, x) # LiveIn(World, x)}])

\* Another caller merges the group's live membership into the snapshot; with
\* serialized access it waits for a detection in progress.
SnapshotUpdate(g) ==
    /\ g \in sync_state_keys /\ g \in DOMAIN collections
    /\ detector.serial => detector.pc = "idle"
    /\ Raced("update_group_membership_snapshot",
             update_group_membership_snapshot(World, [x \in {g} |-> KeyList(collections[g])],
                                              FALSE),
             [detector EXCEPT !.edited = @ \ {g}, !.during = detector.pc])

\* detect_collection_hierarchy_changes: both snapshots are copied.
DetectRead ==
    /\ detector.pc = "idle"
    /\ Raced("detect", World,
             [detector EXCEPT !.pc = "compare",
                              !.current = get_group_membership_snapshot(World),
                              !.expected = group_membership_snapshot,
                              !.names = KeyList(DOMAIN group_membership_snapshot)])

\* The loop's test for the next entry, or the end of the loop.
DetectCompare ==
    /\ detector.pc = "compare"
    /\ Raced("detect", World,
             IF detector.names = << >>
             THEN [detector EXCEPT !.pc = "idle", !.current = << >>, !.expected = << >>]
             ELSE LET group_name == Head(detector.names)
                      current_members == IF group_name \in DOMAIN detector.current
                                         THEN detector.current[group_name] ELSE {}
                  IN IF membership_differs(detector.expected[group_name], current_members)
                     THEN [detector EXCEPT !.pc = "flag"]
                     ELSE [detector EXCEPT !.names = Tail(@)])

\* The loop's set_group_unsynced for the entry that differed.
DetectFlag ==
    /\ detector.pc = "flag"
    /\ Raced("detect", [set_group_unsynced(World, Head(detector.names)) EXCEPT !.flagged = {}],
             [detector EXCEPT !.pc = "compare", !.names = Tail(@)])

RaceNext ==
    \/ \E obj \in Objects, g \in MeshGroups : EditMembership(obj, g)
    \/ \E g \in MeshGroups : SnapshotUpdate(g)
    \/ DetectRead
    \/ DetectCompare
    \/ DetectFlag

SpecRace == RaceInit /\ [][RaceNext]_vars

----------------------------------------------------------------------------
\* The engine's write-back and the user's transforms, told apart.

\* Move, scale or rotate by the user: an object whose scale or rotation the
\* user changes no longer carries the engine's values.
UserTransform(obj, s, r) ==
    /\ Len(updates) < MaxUpdates
    /\ scale' = [scale EXCEPT ![obj] = s]
    /\ rotation_quaternion' = [rotation_quaternion EXCEPT ![obj] = r]
    /\ updates' = Append(updates, UpdateRecord(obj, FALSE, TRUE))
    /\ engine_written' = IF s = scale[obj] /\ r = rotation_quaternion[obj]
                         THEN engine_written ELSE engine_written \ {obj}
    /\ UNCHANGED <<collections, color_tag, selected_objects>>
    /\ SceneFrame
    /\ last' = Op("edit")
    /\ tick' = NoTick
    /\ UNCHANGED <<removed, expect, touched, chanVars, corrVars, attrVars, signals, detector>>

\* Standardize Selected Groups: the members' transforms are the engine's.
EngineStandardize ==
    /\ is_running(World)
    /\ SelectedGroups(World) # {}
    /\ updates = << >>
    /\ LET w == standardize_groups(World)
           written == {o \in Objects : w.rotation[o] # rotation_quaternion[o]}
       IN /\ SetWorld(w)
          /\ updates' = SubSeq([i \in 1..Cardinality(written) |->
                                   UpdateRecord(KeyList(written)[i], FALSE, TRUE)],
                               1, IF Cardinality(written) < MaxUpdates
                                  THEN Cardinality(written) ELSE MaxUpdates)
          /\ engine_written' = engine_written
                                   \cup UNION {collections[g] : g \in SelectedGroups(World)}
    /\ last' = Op("standardize")
    /\ tick' = NoTick
    /\ UNCHANGED <<removed, expect, touched, chanVars, corrVars, attrVars, signals, detector>>

WriteBackNext ==
    \/ \E obj \in Objects, g \in MeshGroups : AssignGroup(obj, g)
    \/ \E obj \in Movable, s \in ScaleValues, r \in RotationValues : UserTransform(obj, s, r)
    \/ EngineStandardize
    \/ \E reply \in RepliesNow : Tick(TRUE, reply)

SpecWriteBack == MeshInit /\ [][WriteBackNext]_vars

----------------------------------------------------------------------------
\* Command channel (engine.py): newline-delimited JSON over the engine's pipes.

\* A line of the engine's stdout: a JSON object (with or without key ok), a
\* line of white space only, or text that is not JSON.
Line(kind, id, ok) == [kind |-> kind, id |-> id, ok |-> ok]

Lines ==
    {Line("object", id, ok) : id \in CommandIds, ok \in {"absent", "true", "false"}}
        \cup {Line("blank", 0, "absent"), Line("malformed", 0, "absent")}

\* readline() at end of file returns the empty string.
EndOfFile == Line("eof", 0, "absent")

\* Variant: the first JSON object read is returned, key ok or not.
read_response_first_object(line) ==
    IF line.kind \in {"eof", "blank"} THEN "raise"
    ELSE IF line.kind = "malformed" THEN "raise"
    ELSE "return"

\* Variant: a line that is not JSON is passed over.
read_response_skip_malformed(line) ==
    IF line.kind \in {"eof", "blank"} THEN "raise"
    ELSE IF line.kind = "malformed" THEN "continue"
    ELSE IF line.ok # "absent" THEN "return"
    ELSE "continue"

\* One pass of send_command's loop on the line just read: strip() leaves
\* nothing of a blank line or of end of file (raise), json.loads rejects what
\* is not JSON (raise), an object with key ok is returned, any other object is
\* dropped and the loop reads on.
read_response(line) ==
    IF line.kind \in {"eof", "blank"} THEN "raise"
    ELSE IF line.kind = "malformed" THEN "raise"
    ELSE IF line.ok # "absent" THEN "return"
    ELSE "continue"

\* send_command up to its first readline: refused when the engine is not
\* running, else one command line is written and flushed.
SendCommand(command) ==
    /\ pc = "idle"
    /\ Len(stdin_lines) < MaxSent
    /\ IF ~is_running(World)
       THEN /\ result' = [op |-> "send", kind |-> "not_running", value |-> << >>]
            /\ UNCHANGED <<stdin_lines, pc>>
       ELSE /\ stdin_lines' = Append(stdin_lines, command)
            /\ pc' = "reading"
            /\ result' = [op |-> "send", kind |-> "pending", value |-> << >>]
    /\ consumed' = << >>
    /\ arrived' = stdout_lines
    /\ UNCHANGED <<stdout_lines, expected_id, storeVars, cacheVars, sceneVars, engineVars,
                   ghostVars>>

\* Variant: the loop passes over lines that carry another command's id.
ReadLineMatching ==
    /\ pc = "reading"
    /\ stdout_lines # << >> \/ process # "alive"
    /\ LET line == IF stdout_lines # << >> THEN Head(stdout_lines) ELSE EndOfFile
           first == read_response(line)
           outcome == IF first = "return" /\ line.id # stdin_lines[Len(stdin_lines)]
                      THEN "continue" ELSE first
       IN /\ stdout_lines' = IF stdout_lines # << >> THEN Tail(stdout_lines) ELSE << >>
          /\ consumed' = Append(consumed, line)
          /\ pc' = IF outcome = "continue" THEN "reading" ELSE "idle"
          /\ result' = IF outcome = "return"
                       THEN [op |-> "send", kind |-> "returned", value |-> <<line>>]
                       ELSE IF outcome = "raise"
                            THEN [op |-> "send", kind |-> "raised", value |-> << >>]
                            ELSE result
    /\ UNCHANGED <<stdin_lines, arrived, expected_id, storeVars, cacheVars, sceneVars,
                   engineVars, ghostVars>>

\* One readline of the loop: it blocks while stdout is empty and the engine
\* is alive.
ReadLine ==
    /\ pc = "reading"
    /\ stdout_lines # << >> \/ process # "alive"
    /\ LET line == IF stdout_lines # << >> THEN Head(stdout_lines) ELSE EndOfFile
           outcome == read_response(line)
       IN /\ stdout_lines' = IF stdout_lines # << >> THEN Tail(stdout_lines) ELSE << >>
          /\ consumed' = Append(consumed, line)
          /\ pc' = IF outcome = "continue" THEN "reading" ELSE "idle"
          /\ result' = IF outcome = "return"
                       THEN [op |-> "send", kind |-> "returned", value |-> <<line>>]
                       ELSE IF outcome = "raise"
                            THEN [op |-> "send", kind |-> "raised", value |-> << >>]
                            ELSE result
    /\ UNCHANGED <<stdin_lines, arrived, expected_id, storeVars, cacheVars, sceneVars,
                   engineVars, ghostVars>>

\* The engine writes a line to its stdout.
EngineEmit(line) ==
    /\ process = "alive"
    /\ Len(arrived) < MaxLines
    /\ stdout_lines' = Append(stdout_lines, line)
    /\ arrived' = Append(arrived, line)
    /\ UNCHANGED <<stdin_lines, pc, result, consumed, expected_id, storeVars, cacheVars,
                   sceneVars, engineVars, ghostVars>>

\* Variant: the first well-formed line is returned, whatever its id.
wait_response_any_id(line, expected) ==
    IF line.kind \in {"eof", "blank"} THEN "raise"
    ELSE IF line.kind = "malformed" THEN "raise"
    ELSE "return"

\* Variant: the awaited line must also carry key ok.
wait_response_needs_ok(line, expected) ==
    IF line.kind \in {"eof", "blank"} THEN "raise"
    ELSE IF line.kind = "malformed" THEN "raise"
    ELSE IF line.id = expected /\ line.ok # "absent" THEN "return"
    ELSE "continue"

\* One pass of wait_for_response's loop: as send_command's, but the line
\* returned is the first whose id equals expected_id.
wait_response(line, expected) ==
    IF line.kind \in {"eof", "blank"} THEN "raise"
    ELSE IF line.kind = "malformed" THEN "raise"
    ELSE IF line.id = expected THEN "return"
    ELSE "continue"

\* send_command_async: refused when the engine is not running, else one
\* command line is written and flushed; nothing is read.
SendCommandAsync(command) ==
    /\ pc = "idle"
    /\ Len(stdin_lines) < MaxSent
    /\ IF ~is_running(World)
       THEN /\ result' = [op |-> "send_async", kind |-> "not_running", value |-> << >>]
            /\ UNCHANGED stdin_lines
       ELSE /\ stdin_lines' = Append(stdin_lines, command)
            /\ result' = [op |-> "send_async", kind |-> "sent", value |-> << >>]
    /\ UNCHANGED <<stdout_lines, pc, consumed, arrived, expected_id, storeVars, cacheVars,
                   sceneVars, engineVars, ghostVars>>

\* wait_for_response up to its first readline.
WaitForResponse(id) ==
    /\ pc = "idle"
    /\ IF ~is_running(World)
       THEN /\ result' = [op |-> "wait", kind |-> "not_running", value |-> << >>]
            /\ UNCHANGED pc
       ELSE /\ pc' = "waiting"
            /\ result' = [op |-> "wait", kind |-> "pending", value |-> << >>]
    /\ expected_id' = id
    /\ consumed' = << >>
    /\ arrived' = stdout_lines
    /\ UNCHANGED <<stdin_lines, stdout_lines, storeVars, cacheVars, sceneVars, engineVars,
                   ghostVars>>

\* One readline of wait_for_response's loop.
WaitLine ==
    /\ pc = "waiting"
    /\ stdout_lines # << >> \/ process # "alive"
    /\ LET line == IF stdout_lines # << >> THEN Head(stdout_lines) ELSE EndOfFile
           outcome == wait_response(line, expected_id)
       IN /\ stdout_lines' = IF stdout_lines # << >> THEN Tail(stdout_lines) ELSE << >>
          /\ consumed' = Append(consumed, line)
          /\ pc' = IF outcome = "continue" THEN "waiting" ELSE "idle"
          /\ result' = IF outcome = "return"
                       THEN [op |-> "wait", kind |-> "returned", value |-> <<line>>]
                       ELSE IF outcome = "raise"
                            THEN [op |-> "wait", kind |-> "raised", value |-> << >>]
                            ELSE result
    /\ UNCHANGED <<stdin_lines, arrived, expected_id, storeVars, cacheVars, sceneVars,
                   engineVars, ghostVars>>

\* stop() between calls: the handle and its pipes are dropped.
ChanStop ==
    /\ pc = "idle"
    /\ process # "none"
    /\ process' = stop(World).process
    /\ is_running_flag' = stop(World).is_running
    /\ children' = stop(World).children
    /\ stdout_lines' = << >>
    /\ result' = [op |-> "stop", kind |-> "returned", value |-> << >>]
    /\ UNCHANGED <<stdin_lines, pc, consumed, arrived, expected_id, storeVars, cacheVars,
                   sceneVars, ghostVars>>

ChanInit ==
    /\ group_membership_snapshot = EmptyMap
    /\ unsynced_groups = {}
    /\ is_performing_classification = FALSE
    /\ previous_scales = EmptyMap
    /\ previous_rotations = EmptyMap
    /\ InitialScene
    /\ \E started \in BOOLEAN :
           /\ process = IF started THEN "alive" ELSE "none"
           /\ is_running_flag = started
           /\ children = IF started THEN 1 ELSE 0
    /\ signals = << >>
    /\ detector = DetectorIdle
    /\ engine_written = {}
    /\ last = Op("init")
    /\ removed = NoRemovals
    /\ expect = EmptyMap
    /\ touched = {}
    /\ tick = NoTick
    /\ ChannelIdle
    /\ AttributesIdle

ChanNext ==
    \/ \E id \in CommandIds : SendCommand(id) /\ UNCHANGED restVars
    \/ ReadLine /\ UNCHANGED restVars
    \/ \E line \in Lines : EngineEmit(line) /\ UNCHANGED restVars
    \/ EngineExit
    \/ \E id \in CommandIds : SendCommandAsync(id) /\ UNCHANGED restVars
    \/ \E id \in CommandIds : WaitForResponse(id) /\ UNCHANGED restVars
    \/ WaitLine /\ UNCHANGED restVars
    \/ ChanStop /\ UNCHANGED restVars

SpecChan == ChanInit /\ [][ChanNext]_vars

----------------------------------------------------------------------------
\* Request/reply correlation: callers pair send_command_async with
\* wait_for_response, and the engine answers the commands it reads in order,
\* one line with the command's id for each.

Unawaited(id) == {j \in 1..Len(stdin_lines) : stdin_lines[j] = id /\ j \notin awaited}

\* A caller sends a command; whether an earlier command of the same id is
\* still waiting for its reply is recorded.
SendRequest(command) ==
    /\ SendCommandAsync(command)
    /\ serialized' = (serialized /\ (is_running(World) => Unawaited(command) = {}))
    /\ UNCHANGED <<answered, waiting_for, awaited, attrVars, signals, detector, engine_written>>

\* A caller waits for the reply to the request at position req.
AwaitRequest(req) ==
    /\ req \in 1..Len(stdin_lines)
    /\ req \notin awaited
    /\ WaitForResponse(stdin_lines[req])
    /\ waiting_for' = req
    /\ UNCHANGED <<answered, awaited, serialized, attrVars, signals, detector, engine_written>>

AwaitLine ==
    /\ WaitLine
    /\ awaited' = IF result'.kind = "returned" THEN awaited \cup {waiting_for} ELSE awaited
    /\ UNCHANGED <<answered, waiting_for, serialized, attrVars, signals, detector, engine_written>>

\* The engine answers the oldest command it has not answered yet.
EngineReply(ok) ==
    /\ process = "alive"
    /\ answered < Len(stdin_lines)
    /\ answered' = answered + 1
    /\ LET line == Line("object", stdin_lines[answered + 1], ok)
       IN /\ stdout_lines' = Append(stdout_lines, line)
          /\ arrived' = Append(arrived, line)
    /\ UNCHANGED <<stdin_lines, pc, result, consumed, expected_id, waiting_for, awaited,
                   serialized, attrVars, signals, detector, engine_written, storeVars,
                   cacheVars, sceneVars, engineVars, ghostVars>>

CorrNext ==
    \/ \E command \in CommandIds : SendRequest(command)
    \/ \E req \in 1..MaxSent : AwaitRequest(req)
    \/ AwaitLine
    \/ \E ok \in {"true", "false"} : EngineReply(ok)
    \/ EngineExit

SpecCorr == ChanInit /\ [][CorrNext]_vars

\* Blocking sends among the asynchronous ones, with the same engine.
MixNext ==
    \/ \E command \in CommandIds : SendRequest(command)
    \/ \E command \in CommandIds : SendCommand(command) /\ UNCHANGED restVars
    \/ ReadLine /\ UNCHANGED restVars
    \/ \E req \in 1..MaxSent : AwaitRequest(req)
    \/ AwaitLine
    \/ \E ok \in {"true", "false"} : EngineReply(ok)
    \/ EngineExit

SpecMix == ChanInit /\ [][MixNext]_vars

\* While it works on a command the engine writes lines ahead of the terminal
\* one: progress objects without key ok, or text that is not JSON.
EngineNoise(line) ==
    /\ answered < Len(stdin_lines)
    /\ EngineEmit(line)
    /\ UNCHANGED restVars

\* Blocking sends only, the engine answering in order with noise in between.
GarbleNext ==
    \/ \E command \in CommandIds : SendCommand(command) /\ UNCHANGED restVars
    \/ ReadLine /\ UNCHANGED restVars
    \/ \E id \in CommandIds, kind \in {"object", "malformed"} :
           EngineNoise(Line(kind, IF kind = "object" THEN id ELSE 0, "absent"))
    \/ \E ok \in {"true", "false"} : EngineReply(ok)
    \/ EngineExit

SpecGarble == ChanInit /\ [][GarbleNext]_vars

----------------------------------------------------------------------------
\* Property manager: operations that send one command and act on its reply.

\* Values of a classification attribute.
AttrValues == {"1", "2"}

Properties == [attr |-> classification, expected |-> engine_expected_state]

\* _get_group_name: the group of a collection the object is linked to.
get_group_name(w, obj) ==
    LET groups == {g \in DOMAIN w.coll : obj \in w.coll[g]}
    IN IF groups = {} THEN "" ELSE CHOOSE g \in groups : TRUE

\* _update_engine_state
update_engine_state(p, group_name, value) ==
    [p EXCEPT !.expected = [g \in DOMAIN p.expected \cup {group_name} |->
                               IF g = group_name THEN value ELSE p.expected[g]]]

\* _update_group_attribute: the other members of the group take the value.
update_group_attribute(w, p, obj, value) ==
    LET group_name == get_group_name(w, obj)
    IN IF group_name = "" THEN p
       ELSE [p EXCEPT !.attr = [o \in Objects |->
                                   IF o # obj /\ o \in w.coll[group_name]
                                   THEN value ELSE p.attr[o]]]

\* What the caller of engine.send_command sees: no engine, the reply's
\* kind, or an exception.
exchange(w, reply) == IF ~is_running(w) THEN "unavailable" ELSE reply.kind

\* _send_group_attribute_command
send_group_attribute_command(w, reply) == exchange(w, reply) = "ok"

\* Variant: the property is written before the engine is asked.
set_attribute_optimistic(w, p, obj, value, update_group, update_engine, reply) ==
    LET group_name == get_group_name(w, obj)
        sends == update_group /\ update_engine /\ group_name # ""
        written == [p EXCEPT !.attr[obj] = value]
    IN IF sends /\ ~send_group_attribute_command(w, reply)
       THEN [ret |-> FALSE, p |-> written, sent |-> is_running(w)]
       ELSE [ret |-> TRUE,
             p |-> IF group_name # "" /\ (update_group \/ update_engine)
                   THEN update_engine_state(written, group_name, value)
                   ELSE written,
             sent |-> sends]

\* set_attribute(obj, attr_name, value, update_group, update_engine)
set_attribute(w, p, obj, value, update_group, update_engine, reply) ==
    LET group_name == get_group_name(w, obj)
        sends == update_group /\ update_engine /\ group_name # ""
        written == [p EXCEPT !.attr[obj] = value]
    IN IF sends /\ ~send_group_attribute_command(w, reply)
       THEN [ret |-> FALSE, p |-> p, sent |-> is_running(w)]
       ELSE [ret |-> TRUE,
             p |-> IF update_group /\ group_name # ""
                   THEN update_engine_state(update_group_attribute(w, written, obj, value),
                                            group_name, value)
                   ELSE IF update_engine /\ group_name # ""
                        THEN update_engine_state(written, group_name, value)
                        ELSE written,
             sent |-> sends]

\* sync_attribute_with_engine(obj, attr_name)
sync_attribute_with_engine(w, p, obj, reply) ==
    LET group_name == get_group_name(w, obj)
    IN IF group_name = "" THEN [ret |-> FALSE, p |-> p, sent |-> FALSE]
       ELSE IF exchange(w, reply) = "ok"
            THEN [ret |-> TRUE, p |-> update_engine_state(p, group_name, p.attr[obj]),
                  sent |-> TRUE]
            ELSE [ret |-> FALSE, p |-> p, sent |-> is_running(w)]

\* Group -> value maps handed to the batch update.
GroupSurfaceMaps == UNION {[D -> AttrValues] : D \in SUBSET Groups}

RECURSIVE update_engine_states(_, _, _)
update_engine_states(p, group_surface_map, todo) ==
    IF todo = {} THEN p
    ELSE LET g == CHOOSE x \in todo : TRUE
         IN update_engine_states(update_engine_state(p, g, group_surface_map[g]),
                                 group_surface_map, todo \ {g})

\* sync_group_classifications(group_surface_map)
sync_group_classifications(w, p, group_surface_map, reply) ==
    IF DOMAIN group_surface_map = {} THEN [ret |-> TRUE, p |-> p, sent |-> FALSE]
    ELSE IF exchange(w, reply) = "ok"
         THEN [ret |-> TRUE,
               p |-> update_engine_states(p, group_surface_map, DOMAIN group_surface_map),
               sent |-> TRUE]
         ELSE [ret |-> FALSE, p |-> p, sent |-> is_running(w)]

\* needs_attribute_sync: an expectation is recorded and the object differs.
needs_attribute_sync(w, p, obj) ==
    LET group_name == get_group_name(w, obj)
    IN /\ group_name # ""
       /\ group_name \in DOMAIN p.expected
       /\ p.attr[obj] # p.expected[group_name]

\* What the engine answers to the command sent while each object is visited.
UndoReplies == [Objects -> {"ok", "error"}]

\* sync_scene_after_undo: the loop over scene.objects; acc carries the
\* properties, the pairs synced so far and the groups named by the commands
\* sent, in order.
RECURSIVE undo_loop(_, _, _, _)
undo_loop(w, acc, objs, replies) ==
    IF objs = << >> THEN acc
    ELSE LET obj == Head(objs)
             group_name == get_group_name(w, obj)
             needs == group_name \notin DOMAIN acc.p.expected
                      \/ needs_attribute_sync(w, acc.p, obj)
             out == sync_attribute_with_engine(
                        w, acc.p, obj, [kind |-> replies[obj], dropped_count |-> 0])
         IN IF group_name = "" \/ group_name \in acc.synced_pairs \/ ~needs
            THEN undo_loop(w, acc, Tail(objs), replies)
            ELSE undo_loop(w,
                           [p |-> out.p,
                            synced_pairs |-> IF out.ret THEN acc.synced_pairs \cup {group_name}
                                             ELSE acc.synced_pairs,
                            sent |-> IF out.sent THEN Append(acc.sent, group_name)
                                     ELSE acc.sent],
                           Tail(objs), replies)

sync_scene_after_undo(w, p, replies) ==
    undo_loop(w, [p |-> p, synced_pairs |-> {}, sent |-> << >>], KeyList(Objects), replies)

\* The outcome of a call: its name, the kind of reply it got when it sent a
\* command, and what it returned.
Called(op, out, reply) ==
    /\ classification' = out.p.attr
    /\ engine_expected_state' = out.p.expected
    /\ result' = [op |-> op, kind |-> IF out.sent THEN reply.kind ELSE "none",
                  value |-> <<out.ret>>]
    /\ last' = Op(op)
    /\ UNCHANGED <<storeVars, cacheVars, sceneVars, engineVars, removed, expect, touched,
                   tick, stdin_lines, stdout_lines, pc, consumed, arrived, expected_id,
                   corrVars, signals, detector, engine_written>>

SetAttribute(obj, value, update_group, update_engine, reply) ==
    Called("set_attribute",
           set_attribute(World, Properties, obj, value, update_group, update_engine, reply),
           reply)

SyncAttribute(obj, reply) ==
    Called("sync_attribute_with_engine",
           sync_attribute_with_engine(World, Properties, obj, reply), reply)

SyncGroupClassifications(group_surface_map, reply) ==
    Called("sync_group_classifications",
           sync_group_classifications(World, Properties, group_surface_map, reply), reply)

DropGroups(group_names, reply) ==
    Called("drop_groups",
           [ret |-> engine_drop_groups(World, group_names, reply), p |-> Properties,
            sent |-> group_names # << >> /\ is_running(World)],
           reply)

\* The undo/redo hook runs the reconciliation; the groups its commands
\* named are kept as the call's value.
SyncSceneAfterUndo(replies) ==
    LET out == sync_scene_after_undo(World, Properties, replies) IN
    /\ classification' = out.p.attr
    /\ engine_expected_state' = out.p.expected
    /\ result' = [op |-> "sync_scene_after_undo", kind |-> "returned", value |-> out.sent]
    /\ last' = Op("sync_scene_after_undo")
    /\ UNCHANGED <<storeVars, cacheVars, sceneVars, engineVars, removed, expect, touched,
                   tick, stdin_lines, stdout_lines, pc, consumed, arrived, expected_id,
                   corrVars, signals, detector, engine_written>>

\* An edit of the property in the host's UI, without the manager.
EditProperty(obj, value) ==
    /\ classification' = [classification EXCEPT ![obj] = value]
    /\ UNCHANGED <<engine_expected_state, storeVars, cacheVars, sceneVars, engineVars>>
    /\ last' = Op("edit")
    /\ tick' = NoTick
    /\ UNCHANGED <<removed, expect, touched, chanVars, corrVars, signals, detector, engine_written>>

AttrNext ==
    \/ \E obj \in Objects, g \in Groups : AssignGroup(obj, g)
    \/ \E obj \in Objects, value \in AttrValues : EditProperty(obj, value)
    \/ \E obj \in Objects, value \in AttrValues, update_group, update_engine \in BOOLEAN,
          reply \in Replies :
           SetAttribute(obj, value, update_group, update_engine, reply)
    \/ \E obj \in Objects, reply \in Replies : SyncAttribute(obj, reply)
    \/ \E group_surface_map \in GroupSurfaceMaps, reply \in Replies :
           SyncGroupClassifications(group_surface_map, reply)
    \/ \E group_names \in NameLists, reply \in Replies : DropGroups(group_names, reply)
    \/ \E replies \in UndoReplies : SyncSceneAfterUndo(replies)
    \/ EngineExit

SpecAttr == MeshInit /\ [][AttrNext]_vars

----------------------------------------------------------------------------
\* Engine supervision: start(), stop() path by path, the module-level
\* accessors and the module's import.

\* What the operating system answers during one stop(): the write of the
\* quit line, the wait of 2 s, terminate(), the wait of 1 s.
StopEnvs ==
    [write : {"ok", "broken_pipe", "error"},
     grace : {"exited", "timeout"},
     terminate : {"ok", "error"},
     term_wait : {"exited", "timeout"}]

\* Variant: terminate and kill follow the quit line at once.
shutdown_sequence_eager(env) == <<"quit", "terminate", "kill">>

\* The steps stop() takes on a child that poll() reports alive.
shutdown_sequence(env) ==
    IF env.write = "error" THEN <<"quit", "error", "kill">>
    ELSE IF env.write = "ok" /\ env.grace = "exited" THEN <<"quit", "grace_exit">>
    ELSE <<"quit", IF env.write = "ok" THEN "grace_timeout" ELSE "broken_pipe">>
         \o (IF env.terminate = "error" THEN <<"terminate", "error", "kill">>
             ELSE IF env.term_wait = "exited" THEN <<"terminate", "terminate_exit">>
             ELSE <<"terminate", "terminate_timeout", "kill">>)

\* Variant: the state is cleared except when the child left within the
\* grace period.
stop_with_grace_leak(w, env) ==
    IF ~w.is_running \/ w.process = "none" THEN [w |-> w, signals |-> << >>]
    ELSE IF w.process = "alive" /\ env.write = "ok" /\ env.grace = "exited"
         THEN [w |-> w, signals |-> shutdown_sequence(env)]
         ELSE [w |-> [w EXCEPT !.process = "none", !.is_running = FALSE,
                               !.children = IF w.process = "alive" THEN @ - 1 ELSE @],
               signals |-> IF w.process = "alive" THEN shutdown_sequence(env) ELSE << >>]

\* Variant: after an unexpected error the handle is kept.
stop_with_error_leak(w, env) ==
    IF ~w.is_running \/ w.process = "none" THEN [w |-> w, signals |-> << >>]
    ELSE IF w.process = "alive" /\ env.write = "error"
         THEN [w |-> [w EXCEPT !.process = "exited", !.is_running = FALSE,
                               !.children = @ - 1],
               signals |-> shutdown_sequence(env)]
         ELSE [w |-> [w EXCEPT !.process = "none", !.is_running = FALSE,
                               !.children = IF w.process = "alive" THEN @ - 1 ELSE @],
               signals |-> IF w.process = "alive" THEN shutdown_sequence(env) ELSE << >>]

\* Variant: the handle is dropped without ending the child.
stop_with_abandon(w, env) ==
    IF ~w.is_running \/ w.process = "none" THEN [w |-> w, signals |-> << >>]
    ELSE [w |-> [w EXCEPT !.process = "none", !.is_running = FALSE],
          signals |-> << >>]

\* stop() with what it did to the child: nothing when it returns early or
\* the child has already exited, else the shutdown sequence; every path
\* that passes the guard clears the handle and the flag.
stop_with(w, env) ==
    IF ~w.is_running \/ w.process = "none" THEN [w |-> w, signals |-> << >>]
    ELSE [w |-> stop(w),
          signals |-> IF w.process = "alive" THEN shutdown_sequence(env) ELSE << >>]

\* import of the engine module: a running instance kept from an earlier
\* import is stopped.
module_import(w, env) ==
    IF is_running(w) THEN stop_with(w, env) ELSE [w |-> w, signals |-> << >>]

LaunchOutcomes == {"ok", "missing", "spawn_error"}

\* The call just made, the one before it, and what that one did to the
\* child when it was a stop().
ProcFrame(op, did) ==
    /\ last' = Last(op, EmptyMap, <<last.op>> \o (IF last.op = "stop" THEN signals ELSE << >>),
                    "")
    /\ signals' = did
    /\ UNCHANGED <<detector, engine_written>>
    /\ UNCHANGED <<storeVars, cacheVars, sceneVars, removed, expect, touched, tick,
                   stdin_lines, stdout_lines, pc, consumed, arrived, expected_id, corrVars,
                   attrVars>>

SetEngine(w) ==
    /\ process' = w.process
    /\ is_running_flag' = w.is_running
    /\ children' = w.children

ProcStart(launch) ==
    LET out == start(World, launch = "ok") IN
    /\ SetEngine(out.w)
    /\ result' = [op |-> "start", kind |-> launch, value |-> <<out.ok>>]
    /\ ProcFrame("start", signals)

ProcStop(env) ==
    LET out == stop_with(World, env) IN
    /\ SetEngine(out.w)
    /\ result' = [op |-> "stop", kind |-> "returned", value |-> << >>]
    /\ ProcFrame("stop", out.signals)

ProcRequest(launch) ==
    LET out == get_engine_communicator(World, launch = "ok") IN
    /\ SetEngine(out.w)
    /\ result' = [op |-> "get_engine_communicator", kind |-> launch, value |-> <<out.ok>>]
    /\ ProcFrame("get_engine_communicator", signals)

ProcImport(env) ==
    LET out == module_import(World, env) IN
    /\ SetEngine(out.w)
    /\ result' = [op |-> "import", kind |-> "returned", value |-> << >>]
    /\ ProcFrame("import", out.signals)

ProcExit ==
    /\ process = "alive"
    /\ process' = "exited"
    /\ children' = children - 1
    /\ UNCHANGED <<is_running_flag, result>>
    /\ ProcFrame("exit", signals)

\* A caller asks is_running().
ProcIsRunning ==
    /\ result' = [op |-> "is_running", kind |-> "returned", value |-> <<is_running(World)>>]
    /\ UNCHANGED engineVars
    /\ ProcFrame("is_running", signals)

ProcNext ==
    \/ ProcIsRunning
    \/ \E launch \in LaunchOutcomes : ProcStart(launch)
    \/ \E env \in StopEnvs : ProcStop(env)
    \/ \E launch \in LaunchOutcomes : ProcRequest(launch)
    \/ \E env \in StopEnvs : ProcImport(env)
    \/ ProcExit

SpecProc == Init /\ [][ProcNext]_vars

----------------------------------------------------------------------------
\* Group assignment through the group manager.

\* _ensure_group_collection: an object already in the collection tagged
\* group_name keeps it; else the collection named fallback_name is fetched or
\* created, the object linked to it, and the collection tagged.
ensure_group_collection(w, obj, group_name, fallback_name) ==
    IF group_name # "" /\ group_name \in w.managed /\ group_name \in DOMAIN w.coll
       /\ obj \in w.coll[group_name]
    THEN w
    ELSE LET members == IF fallback_name \in DOMAIN w.coll THEN w.coll[fallback_name]
                        ELSE {}
         IN [w EXCEPT
               !.managed = @ \cup {fallback_name},
               !.coll = [g \in DOMAIN w.coll \cup {fallback_name} |->
                            IF g = fallback_name THEN members \cup {obj} ELSE w.coll[g]]]

\* create_or_get_group_collection: every object is assigned in turn.
RECURSIVE create_or_get_group_collection(_, _, _)
create_or_get_group_collection(w, objects, group_name) ==
    IF objects = << >> THEN w
    ELSE create_or_get_group_collection(set_group_name(w, Head(objects), group_name),
                                        Tail(objects), group_name)

Assigned(op, objects, group_name, w) ==
    /\ SetWorld(w)
    /\ result' = [op |-> op, kind |-> "returned", value |-> objects]
    /\ last' = [Op(op) EXCEPT !.name = group_name]
    /\ tick' = NoTick
    /\ UNCHANGED <<updates, removed, expect, touched, stdin_lines, stdout_lines, pc,
                   consumed, arrived, expected_id, restVars>>

SetGroupName(obj, group_name) ==
    Assigned("set_group_name", <<obj>>, group_name,
             set_group_name(World, obj, group_name))

CreateOrGetGroupCollection(objects, group_name) ==
    Assigned("create_or_get_group_collection", objects, group_name,
             create_or_get_group_collection(World, objects, group_name))

\* The fallback is called with no group name, or with the fallback's name.
EnsureGroupCollection(obj, group_name, fallback_name) ==
    Assigned("ensure_group_collection", <<obj>>, fallback_name,
             ensure_group_collection(World, obj, group_name, fallback_name))

GroupNext ==
    \/ \E obj \in Objects, g \in Groups : SetGroupName(obj, g)
    \/ \E objects \in MemberLists, g \in Groups : CreateOrGetGroupCollection(objects, g)
    \/ \E obj \in Objects, g \in Groups :
           \E group_name \in {"", g} : EnsureGroupCollection(obj, group_name, g)

SpecGroup == Init /\ [][GroupNext]_vars

----------------------------------------------------------------------------
\* Lifecycle hooks when one of their sub-steps raises.

\* The sub-step that raises during one run of a hook, if any.
TickFaults == {"none", "hierarchy", "mesh", "orphans", "engine", "colors"}
LoadPreFaults == {"none", "collect", "sync"}
LoadPostFaults == {"none", "reset_state", "snapshot", "caches"}

\* The try block of enforce_colors: communicator, drop request, local drop.
orphan_cleanup(w, can_launch, reply) ==
    LET orphaned_groups == update_orphaned_groups(w)
        comm == get_engine_communicator(w, can_launch)
        dropped_count == IF comm.ok
                         THEN engine_drop_groups(comm.w, orphaned_groups, reply)
                         ELSE -1
    IN IF orphaned_groups = << >> THEN w
       ELSE IF ~comm.ok THEN comm.w
       ELSE IF dropped_count >= 0
            THEN group_mgr_drop_groups(
                     [comm.w EXCEPT !.color =
                         [g \in Groups |->
                             IF g \in Range(orphaned_groups) /\ g \in DOMAIN w.coll
                             THEN "NONE" ELSE w.color[g]]],
                     orphaned_groups)
            ELSE comm.w

\* enforce_colors with a raising sub-step: only the try block around the
\* engine exchange catches.
enforce_colors_with(w, can_launch, reply, fault) ==
    IF fault = "orphans" THEN [w |-> w, raised |-> TRUE]
    ELSE IF fault = "engine"
         THEN [w |-> enforce_colors(w, can_launch, [kind |-> "raise", dropped_count |-> 0]),
               raised |-> FALSE]
         ELSE IF fault = "colors"
              THEN [w |-> orphan_cleanup(w, can_launch, reply), raised |-> TRUE]
              ELSE [w |-> enforce_colors(w, can_launch, reply), raised |-> FALSE]

\* on_depsgraph_update with a raising sub-step: the handler has no try
\* block of its own.
on_depsgraph_update_with(w, ups, can_launch, reply, fault) ==
    IF w.performing
    THEN enforce_colors_with([w EXCEPT !.performing = FALSE], can_launch, reply, fault)
    ELSE IF fault = "hierarchy" THEN [w |-> w, raised |-> TRUE]
         ELSE IF fault = "mesh"
              THEN [w |-> detect_collection_hierarchy_changes(w), raised |-> TRUE]
              ELSE enforce_colors_with(
                       unsync_mesh_changes(detect_collection_hierarchy_changes(w), ups),
                       can_launch, reply, fault)

\* on_load_pre with a raising sub-step: its whole body is in a try block.
on_load_pre_with(w, has_classifications, can_launch, fault) ==
    [w |-> IF fault = "collect" THEN w
           ELSE on_load_pre(w, has_classifications, can_launch),
     raised |-> FALSE]

\* on_load_post with a raising sub-step: no try block.
on_load_post_with(w, fault) ==
    IF fault = "reset_state" THEN [w |-> w, raised |-> TRUE]
    ELSE IF fault = "snapshot" THEN [w |-> reset_state(w), raised |-> TRUE]
    ELSE IF fault = "caches"
         THEN [w |-> update_group_membership_snapshot(reset_state(w), EmptyMap, TRUE),
               raised |-> TRUE]
         ELSE [w |-> on_load_post(w), raised |-> FALSE]

\* The hook that ran, the sub-step that raised, and whether the exception
\* left the hook.
Hooked(hook, fault, out) ==
    /\ SetWorld(out.w)
    /\ result' = [op |-> hook, kind |-> fault,
                  value |-> <<IF out.raised THEN "raised" ELSE "returned">>]
    /\ last' = Op(hook)
    /\ tick' = NoTick
    /\ updates' = << >>
    /\ UNCHANGED <<removed, expect, touched, stdin_lines, stdout_lines, pc, consumed,
                   arrived, expected_id, restVars>>

HookTick(can_launch, reply, fault) ==
    Hooked("on_depsgraph_update", fault,
           on_depsgraph_update_with(World, updates, can_launch, reply, fault))

HookLoadPre(has_classifications, can_launch, fault) ==
    Hooked("on_load_pre", fault,
           on_load_pre_with(World, has_classifications, can_launch, fault))

HookLoadPost(fault) ==
    Hooked("on_load_post", fault, on_load_post_with(World, fault))

HookNext ==
    \/ \E obj \in Objects, g \in Groups : AssignGroup(obj, g)
    \/ \E g \in Groups : RemoveCollection(g)
    \/ \E can_launch \in LaunchesNow, reply \in RepliesNow, fault \in TickFaults :
           HookTick(can_launch, reply, fault)
    \/ \E c \in BOOLEAN, can_launch \in LaunchesNow, fault \in LoadPreFaults :
           HookLoadPre(c, can_launch, fault)
    \/ \E fault \in LoadPostFaults : HookLoadPost(fault)

SpecHook == Init /\ [][HookNext]_vars

----------------------------------------------------------------------------
\* Claims about the sync state store (checked under SpecStore).

\* C2: after any run of merge-mode snapshot updates, started in any state of
\* the store, the snapshot maps every key the run wrote to the member set of
\* the last update that wrote it, maps every other key as before the run, and
\* no key the run wrote is in the unsynced set.
C2_MergeLastWriteWins ==
    last.op = "merge" =>
        /\ group_membership_snapshot = expect
        /\ \A k \in DOMAIN last.sets : group_membership_snapshot[k] = last.sets[k]
        /\ touched \cap unsynced_groups = {}

\* A run of at least two merges: the last wrote G1 only, an earlier one G2.
C2_Witness ==
    /\ last.op = "merge"
    /\ DOMAIN last.sets = {"G1"}
    /\ touched = {"G1", "G2"}
    /\ group_membership_snapshot["G1"] = {"A", "B"}
    /\ group_membership_snapshot["G2"] = {"B"}

\* C3: a replace-mode update runs the removal once for every group the
\* snapshot tracked and for no other (its entry and its unsynced flag are
\* dropped), and leaves the snapshot equal to the member sets it was given.
C3_ReplaceRemovesEachOnce ==
    [][last'.op = "replace" =>
          /\ \A g \in Groups :
                 removed'[g] = IF g \in DOMAIN group_membership_snapshot THEN 1 ELSE 0
          /\ \A g \in DOMAIN group_membership_snapshot :
                 /\ g \notin unsynced_groups'
                 /\ g \notin DOMAIN last'.sets => g \notin DOMAIN group_membership_snapshot'
          /\ group_membership_snapshot' = last'.sets]_vars

\* A replace that found both groups tracked and installed an entry for G1.
C3_Witness ==
    /\ last.op = "replace"
    /\ removed["G1"] = 1 /\ removed["G2"] = 1
    /\ DOMAIN group_membership_snapshot = {"G1"}
    /\ group_membership_snapshot["G1"] = {"A"}

\* C4: after update_group_membership_snapshot({}, replace=True) the snapshot
\* and the unsynced set are both empty.
C4_ResetEmptiesStore ==
    (last.op = "replace" /\ last.sets = EmptyMap) =>
        /\ group_membership_snapshot = EmptyMap
        /\ unsynced_groups = {}

----------------------------------------------------------------------------
\* Claims about the change detector and orphan cleanup.

\* Members the live scene gives a group: empty when its container is gone.
Live(g) == IF g \in DOMAIN collections THEN collections[g] ELSE {}

\* Tracked groups whose live membership differs from their snapshot entry.
Drifted ==
    {g \in DOMAIN group_membership_snapshot : Live(g) # group_membership_snapshot[g]}

UnsuppressedTick == last'.op = "tick" /\ ~is_performing_classification

C5_OrphanCleanupAtomic ==
    [][(last'.op = "tick" /\ tick'.orphans # {}) =>
          IF tick'.reply = "ok" /\ process' = "alive" /\ is_running_flag'
          THEN \A g \in tick'.orphans :
                   /\ g \notin sync_state_keys'
                   /\ g \notin DOMAIN group_membership_snapshot'
                   /\ g \notin unsynced_groups'
                   /\ g \in DOMAIN collections => color_tag'[g] = "NONE"
          ELSE /\ sync_state_keys' = sync_state_keys
               /\ group_membership_snapshot' = group_membership_snapshot
               /\ unsynced_groups' = unsynced_groups \cup tick'.t1 \cup tick'.t2
               /\ \A g \in tick'.orphans :
                      color_tag'[g] = IF g \in unsynced_groups' /\ g \in DOMAIN collections
                                      THEN "COLOR_03" ELSE color_tag[g]]_vars

\* The engine answered the drop of orphan G1 with an error: G1 is still
\* tracked, still in the snapshot and still unsynced.
C5_Witness ==
    /\ last.op = "tick"
    /\ tick.orphans = {"G1"}
    /\ tick.reply = "error"
    /\ process = "alive" /\ is_running_flag
    /\ "G1" \in sync_state_keys
    /\ "G1" \in DOMAIN group_membership_snapshot
    /\ "G1" \in unsynced_groups

C7_HierarchyDrift ==
    [][UnsuppressedTick => tick'.t1 = Drifted]_vars

\* Trigger 1 flagged G1 and passed over G2, which is live with a member but
\* has no snapshot entry.
C7_Witness ==
    /\ last.op = "tick"
    /\ tick.t1 = {"G1"}
    /\ "G2" \in sync_state_keys
    /\ Live("G2") # {}
    /\ "G2" \notin DOMAIN group_membership_snapshot
    /\ "G2" \notin unsynced_groups

\* A change record the detector looks at: geometry or transform, for a
\* selected object.
Matched(rec) ==
    /\ rec.is_updated_geometry \/ rec.is_updated_transform
    /\ rec.obj \in selected_objects

\* The object is a member of the tracked group.
Member(obj, g) ==
    g \in sync_state_keys /\ g \in DOMAIN collections /\ obj \in collections[g]

ScaleDiffers(obj) == obj \in DOMAIN previous_scales /\ scale[obj] # previous_scales[obj]

RotationDiffers(obj) ==
    obj \in DOMAIN previous_rotations /\ rotation_quaternion[obj] # previous_rotations[obj]

Trigger2(rec, g) ==
    /\ Matched(rec)
    /\ Member(rec.obj, g)
    /\ \/ g \notin DOMAIN group_membership_snapshot
       \/ rec.is_updated_geometry
       \/ ScaleDiffers(rec.obj)
       \/ RotationDiffers(rec.obj)
       \/ rec.is_updated_transform /\ Cardinality(group_membership_snapshot[g]) > 1

\* C8: on an unsuppressed tick Trigger 2 flags exactly the groups for which
\* the tick carries a geometry-or-transform record of a selected member and
\* the group has no snapshot entry, or the record is a geometry change, or the
\* member's scale or rotation differs from the cached one, or the record is a
\* transform change and the snapshot entry has more than one member.
C8_MeshTransformDrift ==
    [][UnsuppressedTick =>
          tick'.t2 = {g \in Groups : \E i \in 1..Len(updates) : Trigger2(updates[i], g)}]_vars

\* One transform record for the only member of G1 flagged the group: its
\* scale or rotation had moved away from the cached value.
C8_Witness ==
    /\ last.op = "tick"
    /\ tick.records = <<UpdateRecord("A", FALSE, TRUE)>>
    /\ tick.t2 = {"G1"}
    /\ "G1" \in DOMAIN group_membership_snapshot
    /\ group_membership_snapshot["G1"] = {"A"}
    /\ Live("G1") = {"A"}

\* The group is tracked, in step with its snapshot entry, and the object is a
\* selected member of it.
TrackedWith(g, obj) ==
    /\ g \in DOMAIN group_membership_snapshot
    /\ Member(obj, g)
    /\ obj \in selected_objects
    /\ Live(g) = group_membership_snapshot[g]

\* The tick carries records for the object and all are transform-only.
OnlyTransform(obj) ==
    /\ \E i \in 1..Len(updates) : updates[i].obj = obj
    /\ \A i \in 1..Len(updates) :
           updates[i].obj = obj =>
               updates[i].is_updated_transform /\ ~updates[i].is_updated_geometry

\* C9 (as stated): a transform-only change of the selected member of a
\* one-member tracked group never flags the group; with two members it does.
C9_SingleMemberTransform ==
    [][UnsuppressedTick =>
          \A g \in Groups, obj \in Objects :
              (TrackedWith(g, obj) /\ OnlyTransform(obj)) =>
                  /\ Cardinality(group_membership_snapshot[g]) = 1 => g \notin tick'.t2
                  /\ Cardinality(group_membership_snapshot[g]) = 2 => g \in tick'.t2]_vars

\* C9 (amended): a transform-only change of the selected member of a
\* one-member tracked group does not flag the group provided the member's
\* scale and rotation equal their cached values (or none is cached); with two
\* members it flags the group.
C9_SingleMemberPureMove ==
    [][UnsuppressedTick =>
          \A g \in Groups, obj \in Objects :
              (TrackedWith(g, obj) /\ OnlyTransform(obj)) =>
                  /\ ( /\ Cardinality(group_membership_snapshot[g]) = 1
                       /\ ~ScaleDiffers(obj)
                       /\ ~RotationDiffers(obj) ) => g \notin tick'.t2
                  /\ Cardinality(group_membership_snapshot[g]) = 2 => g \in tick'.t2]_vars

\* A transform record for the only member of G1 was processed and G1 is not
\* flagged.
C9_Witness ==
    /\ last.op = "tick"
    /\ ~tick.suppressed
    /\ tick.records = <<UpdateRecord("A", FALSE, TRUE)>>
    /\ tick.t2 = {}
    /\ "A" \in selected_objects
    /\ "G1" \in sync_state_keys
    /\ "G1" \in DOMAIN group_membership_snapshot
    /\ group_membership_snapshot["G1"] = {"A"}
    /\ Live("G1") = {"A"}
    /\ "G1" \notin unsynced_groups

----------------------------------------------------------------------------
\* Claims about the command channel (checked under SpecChan).

Interim(line) == line.kind = "object" /\ line.ok = "absent"

Terminal(line) == line.kind = "object" /\ line.ok # "absent"

\* Position in the stream of the first line with key ok that only interim
\* lines precede; 0 when there is none.
FirstTerminal(stream) ==
    LET hits == {i \in 1..Len(stream) :
                    Terminal(stream[i]) /\ \A j \in 1..(i - 1) : Interim(stream[j])}
    IN IF hits = {} THEN 0 ELSE CHOOSE i \in hits : TRUE

\* C10: a blocking send on a running engine writes exactly one command line;
\* when it returns, what it returns is the first line of the stream that
\* carries key ok (true or false), it has read exactly the lines up to that
\* one, all interim, and everything after it is still unread; it never returns
\* anything else, and when the stream ends after interim lines only, the
\* call raises.
SendOutcome ==
    (pc = "idle" /\ result.op = "send" /\ result.kind # "not_running") =>
        LET n == FirstTerminal(arrived) IN
        /\ consumed \o stdout_lines = arrived \/ consumed = Append(arrived, EndOfFile)
        /\ result.kind \in {"returned", "raised"}
        /\ result.kind = "returned" =>
               /\ n > 0
               /\ result.value = <<arrived[n]>>
               /\ consumed = SubSeq(arrived, 1, n)
               /\ stdout_lines = SubSeq(arrived, n + 1, Len(arrived))
        /\ (\A i \in 1..Len(consumed) : Interim(consumed[i]) \/ consumed[i] = EndOfFile) =>
               /\ result.kind = "raised"
               /\ consumed = Append(arrived, EndOfFile)
               /\ process # "alive"

\* A call on a running engine appends one command line when it starts and
\* writes nothing while it reads.
OneLineWritten ==
    /\ (pc = "idle" /\ pc' = "reading") =>
           \E command \in CommandIds : stdin_lines' = Append(stdin_lines, command)
    /\ pc = "reading" => stdin_lines' = stdin_lines

C10_SendReturnsFirstTerminal == [][OneLineWritten]_vars /\ []SendOutcome

\* A send read two interim lines and returned the third, whose ok is false.
C10_Witness ==
    /\ pc = "idle"
    /\ result.kind = "returned"
    /\ result.value = <<Line("object", 1, "false")>>
    /\ Len(consumed) = 3
    /\ Interim(consumed[1]) /\ Interim(consumed[2])
    /\ stdin_lines = <<1>>

\* The channel is connected: started, not stopped, child still alive.
Connected == is_running_flag /\ process = "alive"

ChannelCalls == {"send", "send_async", "wait"}

\* A step in which send_command, send_command_async or wait_for_response is
\* entered: the call's outcome is recorded, or a command line is written.
CallEntered ==
    /\ pc = "idle"
    /\ result'.op \in ChannelCalls
    /\ result' # result \/ stdin_lines' # stdin_lines \/ consumed' # consumed

\* C11: while the channel is not connected (never started, stopped, or the
\* child has exited), a blocking send, an asynchronous send and a wait each
\* fail at once with the not-running error: no command line is written, no
\* response line is read, and the call does not enter its read loop.
NotConnectedFails ==
    (CallEntered /\ ~Connected) =>
        /\ result'.kind = "not_running"
        /\ stdin_lines' = stdin_lines
        /\ stdout_lines' = stdout_lines
        /\ consumed' \in {consumed, << >>}
        /\ pc' = "idle"

C11_NotConnectedFailsBeforeIO == [][NotConnectedFails]_vars

\* A wait on a channel whose child has exited failed with the not-running
\* error although an unread response line was still in the pipe.
C11_Witness ==
    /\ result = [op |-> "wait", kind |-> "not_running", value |-> << >>]
    /\ process = "exited"
    /\ stdout_lines # << >>

\* Position in the stream of the first line whose id is expected and that
\* only well-formed lines of other ids precede; 0 when there is none.
FirstWithId(stream, expected) ==
    LET hits == {i \in 1..Len(stream) :
                    /\ stream[i].kind = "object"
                    /\ stream[i].id = expected
                    /\ \A j \in 1..(i - 1) :
                           stream[j].kind = "object" /\ stream[j].id # expected}
    IN IF hits = {} THEN 0 ELSE CHOOSE i \in hits : TRUE

\* An asynchronous send on a connected channel appends exactly one command
\* line and leaves the response stream and the read position alone.
AsyncWritesOnly ==
    (pc = "idle" /\ Connected /\ result'.op = "send_async"
     /\ (result' # result \/ stdin_lines' # stdin_lines)) =>
        /\ \E command \in CommandIds : stdin_lines' = Append(stdin_lines, command)
        /\ stdout_lines' = stdout_lines
        /\ consumed' = consumed
        /\ pc' = "idle"
        /\ result'.kind = "sent"

\* A wait writes nothing, and what it returns is the first line of the
\* stream whose id is the expected one, with or without key ok, having read
\* exactly the lines up to that one.
WaitOutcome ==
    (pc = "idle" /\ result.op = "wait" /\ result.kind # "not_running") =>
        LET n == FirstWithId(arrived, expected_id) IN
        /\ result.kind \in {"returned", "raised"}
        /\ result.kind = "returned" =>
               /\ n > 0
               /\ result.value = <<arrived[n]>>
               /\ consumed = SubSeq(arrived, 1, n)
               /\ stdout_lines = SubSeq(arrived, n + 1, Len(arrived))
        /\ result.kind = "raised" => n = 0

WaitWritesNothing == pc = "waiting" => stdin_lines' = stdin_lines

\* C12: send_command_async writes one command line and reads nothing; a later
\* wait_for_response(id) reads lines in order and returns the first whose id
\* equals id, whether or not that line carries key ok.
C12_AsyncThenWaitById ==
    [][AsyncWritesOnly /\ WaitWritesNothing]_vars /\ []WaitOutcome

\* After an asynchronous send, a wait skipped a line of another id that
\* carried key ok and returned a line of its own id without key ok.
C12_Witness ==
    /\ pc = "idle"
    /\ result.op = "wait" /\ result.kind = "returned"
    /\ stdin_lines # << >>
    /\ Len(consumed) = 2
    /\ consumed[1].id # expected_id /\ consumed[1].ok = "true"
    /\ consumed[2].id = expected_id /\ consumed[2].ok = "absent"

\* The request answered by the last line read: an in-order engine's k-th
\* line answers the k-th command.
AnsweredRequest == answered - Len(stdout_lines)

\* How many lines had been read before the current wait began.
ReadBeforeWait == answered - Len(arrived)

WaitReturned == pc = "idle" /\ result.op = "wait" /\ result.kind = "returned"

\* C13: with an engine that answers in order, a wait returns the reply of the
\* oldest request of its id whose reply was still unread when the wait began;
\* when callers have never sent a command while an earlier one of the same
\* id was unawaited, that is the request the wait was issued for.
C13_SerializedCorrelation ==
    WaitReturned =>
        /\ stdin_lines[AnsweredRequest] = expected_id
        /\ \A j \in (ReadBeforeWait + 1)..(AnsweredRequest - 1) :
               stdin_lines[j] # expected_id
        /\ result.value[1].id = expected_id
        /\ serialized => AnsweredRequest = waiting_for

\* Two requests of the same id were in flight at once, and the wait issued
\* for the second returned the reply to the first.
C13_Witness ==
    /\ WaitReturned
    /\ ~serialized
    /\ waiting_for = 2
    /\ AnsweredRequest = 1
    /\ stdin_lines[1] = stdin_lines[2]

AttrOps == {"set_attribute", "sync_attribute_with_engine", "sync_group_classifications",
            "drop_groups"}

FailureValue(op) == IF op = "drop_groups" THEN -1 ELSE FALSE

\* C14: when the engine answers the command of a group-attribute set, a
\* single-attribute sync, a batch classification set or a drop-groups
\* request with ok false, the operation returns its failure value (False, or
\* -1 for drop-groups) and changes nothing locally: no object's property, no
\* expected engine state, neither the membership snapshot nor the unsynced
\* set.
LogicalErrorLeavesState ==
    (last'.op \in AttrOps /\ result'.kind = "error") =>
        /\ result'.value = <<FailureValue(last'.op)>>
        /\ classification' = classification
        /\ engine_expected_state' = engine_expected_state
        /\ group_membership_snapshot' = group_membership_snapshot
        /\ unsynced_groups' = unsynced_groups

C14_LogicalErrorSoftFails == [][LogicalErrorLeavesState]_vars

\* set_attribute asked for a value the object does not have, the engine
\* refused, and the object kept its old value while its group's expected
\* state still records an earlier successful update.
C14_Witness ==
    /\ last.op = "set_attribute"
    /\ result.kind = "error"
    /\ result.value = <<FALSE>>
    /\ \E o \in Objects :
           /\ get_group_name(World, o) # ""
           /\ get_group_name(World, o) \in DOMAIN engine_expected_state
           /\ classification[o] # engine_expected_state[get_group_name(World, o)]

\* C15: start() called while the running flag is set returns True at once:
\* no process is spawned and the handle and the flag are as before.
StartWhileRunning ==
    (last'.op = "start" /\ is_running_flag) =>
        /\ result'.value = <<TRUE>>
        /\ children' = children
        /\ process' = process
        /\ is_running_flag' = is_running_flag

C15_StartIdempotent == [][StartWhileRunning]_vars

\* start() was called right after a start() that had spawned the child, with
\* a launch that would have succeeded, and there is still one child.
C15_Witness ==
    /\ last.op = "start" /\ last.names = <<"start">>
    /\ result.kind = "ok"
    /\ process = "alive" /\ is_running_flag
    /\ children = 1

\* C16: whatever the order of start(), stop(), communicator requests, module
\* imports and exits of the child, at most one child spawned by the bridge
\* is alive, and it is the one the handle refers to.
C16_AtMostOneChild ==
    /\ children \in {0, 1}
    /\ children = 1 <=> process = "alive"

\* The engine was stopped and then started again: the child spawned by the
\* second start() is the only one alive.
C16_Witness ==
    /\ last.op = "start" /\ last.names[1] = "stop"
    /\ Len(last.names) = 1
    /\ children = 1
    /\ result.value = <<TRUE>>

\* C17: when start() looks for the binary and does not find it, or the
\* launch raises, it returns False and leaves no handle and a cleared flag,
\* so is_running() is False.
FailedStart ==
    (last'.op = "start" /\ ~is_running_flag /\ result'.kind # "ok") =>
        /\ result'.value = <<FALSE>>
        /\ process' = "none"
        /\ ~is_running_flag'
        /\ children' = children

FailedStartNotRunning ==
    (last.op = "start" /\ result.value = <<FALSE>>) => ~Connected /\ process = "none"

C17_FailedStartLeavesNothing == [][FailedStart]_vars /\ []FailedStartNotRunning

\* After a stop() the launch raised: start() returned False.
C17_Witness ==
    /\ last.op = "start" /\ last.names[1] = "stop"
    /\ result = [op |-> "start", kind |-> "spawn_error", value |-> <<FALSE>>]
    /\ process = "none" /\ ~is_running_flag

\* C18: of two consecutive stop() calls the second does nothing to the
\* child: it writes no quit line and calls neither terminate nor kill.
C18_StopIdempotent ==
    (last.op = "stop" /\ last.names[1] = "stop") => signals = << >>

\* The first of two consecutive stop() calls went as far as kill.
C18_Witness ==
    /\ last.op = "stop" /\ last.names[1] = "stop"
    /\ Len(last.names) > 1
    /\ last.names[Len(last.names)] = "kill"
    /\ signals = << >>

\* C19: whenever stop() has returned there is no handle and the flag is
\* cleared, whichever path it took.
C19_StopClears ==
    last.op = "stop" => process = "none" /\ ~is_running_flag

\* stop() returned after an unexpected error while writing the quit line.
C19_Witness ==
    /\ last.op = "stop"
    /\ signals = <<"quit", "error", "kill">>
    /\ process = "none" /\ ~is_running_flag

Position(seq, x) == CHOOSE i \in 1..Len(seq) : seq[i] = x

Has(seq, x) == \E i \in 1..Len(seq) : seq[i] = x

\* The sequence starts with the quit line; terminate comes right after the
\* grace wait timed out or the write hit a broken pipe; a child that left
\* within the grace period is neither terminated nor killed.
EscalationOrder ==
    /\ signals # << >> => signals[1] = "quit"
    /\ Has(signals, "terminate") =>
           /\ Position(signals, "terminate") = 3
           /\ signals[2] \in {"grace_timeout", "broken_pipe"}
    /\ Has(signals, "grace_exit") => signals = <<"quit", "grace_exit">>

\* kill comes only after terminate was requested and its wait timed out.
KillOnlyAfterTerminateTimeout ==
    Has(signals, "kill") =>
        /\ Has(signals, "terminate")
        /\ signals[Len(signals) - 1] = "terminate_timeout"

\* C20 as stated: fixed order quit, terminate, kill, with kill only after
\* terminate's wait timed out.
C20_EscalationAsStated == EscalationOrder /\ KillOnlyAfterTerminateTimeout

\* C20: stop() on a running engine writes the quit line first, calls
\* terminate only after the grace wait timed out or the write hit a broken
\* pipe, and calls kill either after terminate's wait timed out or as the
\* last resort of its handler for an unexpected error; a child that exits
\* within the grace period is neither terminated nor killed.
C20_EscalationOrder ==
    /\ EscalationOrder
    /\ Has(signals, "kill") =>
           /\ signals[Len(signals)] = "kill"
           /\ signals[Len(signals) - 1] \in {"terminate_timeout", "error"}
           /\ signals[Len(signals) - 1] = "terminate_timeout" =>
                  signals[Len(signals) - 2] = "terminate"

\* stop() went through every stage: quit, grace timeout, terminate, its
\* timeout, kill.
C20_Witness ==
    /\ last.op = "stop"
    /\ signals = <<"quit", "grace_timeout", "terminate", "terminate_timeout", "kill">>

\* C21: is_running() answers True exactly when the flag is set, a handle
\* exists and the child has not exited, and it changes neither the handle
\* nor the flag.
IsRunningAnswer ==
    last'.op = "is_running" =>
        /\ result'.value = <<is_running_flag /\ process # "none" /\ process # "exited">>
        /\ process' = process
        /\ is_running_flag' = is_running_flag
        /\ children' = children

C21_IsRunningExact == [][IsRunningAnswer]_vars

\* is_running() answered False with the flag set and a handle present,
\* because the child had exited.
C21_Witness ==
    /\ last.op = "is_running"
    /\ result.value = <<FALSE>>
    /\ is_running_flag
    /\ process = "exited"

\* C22: a child is spawned only by an explicit start(); asking for the
\* communicator while the engine is not running fails and spawns nothing.
SpawnOnlyByStart ==
    /\ children' > children => last'.op = "start"
    /\ (last'.op = "get_engine_communicator" /\ ~Connected) =>
           /\ result'.value = <<FALSE>>
           /\ children' = children
           /\ process' = process

C22_NeverAutoStarted == [][SpawnOnlyByStart]_vars

\* C23: when the load-pre hook returns, the engine process is not running,
\* whether or not the flush of pending classifications succeeded.
LoadPreStops ==
    last'.op = "load_pre" => ~(is_running_flag' /\ process' = "alive")

C23_LoadPreStopsEngine == [][LoadPreStops]_vars

\* C24: when the load-post hook returns, it has called start(), and the
\* membership snapshot, the unsynced set and the cached scales and rotations
\* are empty.
C24_LoadPostRestarts ==
    last.op = "load_post" =>
        /\ \E i \in 1..Len(last.names) : last.names[i] = "start"
        /\ group_membership_snapshot = EmptyMap
        /\ unsynced_groups = {}
        /\ previous_scales = EmptyMap
        /\ previous_rotations = EmptyMap

Hooks == {"on_depsgraph_update", "on_load_pre", "on_load_post"}

\* C25: whichever sub-step of a lifecycle hook raises, the hook returns
\* normally: the exception does not leave it.
C25_NoHookException ==
    result.op \in Hooks => result.value = <<"returned">>

GroupMembers(g) == {o \in Objects : get_group_name(World, o) = g}

Count(seq, x) == Cardinality({i \in 1..Len(seq) : seq[i] = x})

\* C26: in one undo/redo reconciliation, a group with members and no
\* recorded expected value takes the current value as its baseline and no
\* sync command naming it is sent.
BaselineWithoutSync ==
    last'.op = "sync_scene_after_undo" =>
        \A g \in Groups :
            (GroupMembers(g) # {} /\ g \notin DOMAIN engine_expected_state) =>
                /\ Count(result'.value, g) = 0
                /\ g \in DOMAIN engine_expected_state'
                /\ \E o \in GroupMembers(g) : engine_expected_state'[g] = classification[o]

C26_BaselineWithoutSync == [][BaselineWithoutSync]_vars

\* C27: in one undo/redo reconciliation on a running engine, a group with a
\* recorded expected value that a member's current value differs from is
\* named by exactly one sync command, however many members it has and
\* whatever the engine answers.
OneSyncPerPair ==
    (last'.op = "sync_scene_after_undo" /\ Connected) =>
        \A g \in Groups :
            (/\ g \in DOMAIN engine_expected_state
             /\ \E o \in GroupMembers(g) : classification[o] # engine_expected_state[g]) =>
                Count(result'.value, g) = 1

C27_OneSyncPerPair == [][OneSyncPerPair]_vars

TaggedContainers(obj) ==
    {g \in sync_state_keys : g \in DOMAIN collections /\ obj \in collections[g]}

\* C28: after any sequence of group assignments every object is linked
\* into at most one collection tagged as a group.
C28_OneGroupPerObject ==
    \A obj \in Objects : Cardinality(TaggedContainers(obj)) <= 1

\* The caches hold the object's current scale and rotation.
CacheCurrent(obj) ==
    /\ obj \in DOMAIN previous_scales /\ previous_scales[obj] = scale[obj]
    /\ obj \in DOMAIN previous_rotations
    /\ previous_rotations[obj] = rotation_quaternion[obj]

\* C29: after every scene-update tick the caches hold the current scale and
\* rotation of every selected object that is a member of a tracked group.
C29_CacheRefreshedEveryTick ==
    last.op = "tick" =>
        \A obj \in selected_objects :
            (\E g \in Groups : Member(obj, g)) => CacheCurrent(obj)

\* The group is tracked and its container is gone or empty.
OrphanedTracked(g) ==
    g \in sync_state_keys /\ (g \notin DOMAIN collections \/ collections[g] = {})

\* The tick just run sent the engine a drop request naming the group.
DropRequested(g) ==
    g \in tick.orphans /\ process = "alive" /\ is_running_flag

RetriedEachTick ==
    [][last'.op = "tick" =>
          \A g \in Groups :
              OrphanedTracked(g) =>
                  /\ DropRequested(g)'
                  /\ tick'.reply = "ok" =>
                         /\ g \notin DOMAIN group_membership_snapshot'
                         /\ g \notin unsynced_groups']_vars

EventuallyDropped ==
    \A g \in Groups : OrphanedTracked(g) ~> ~OrphanedTracked(g)

\* C30: while a group is tracked and orphaned every tick sends a drop request
\* naming it, a tick whose request is acknowledged removes the group from the
\* snapshot and the unsynced set, and with a fair engine the group does not
\* stay orphaned for ever.
C30_OrphanDropRetried == RetriedEachTick /\ EventuallyDropped

\* The operator just run sent the engine a classification or standardize
\* command.
IssuedStandardize ==
    \E i \in 1..Len(last.names) : last.names[i] \in {"standardize_groups", "standardize_objects"}

\* C31: every operator that sends the engine a standardize command leaves the
\* suppression flag set for the next tick.
C31_OperatorsSetSuppression ==
    IssuedStandardize => is_performing_classification

\* The group is flagged although its snapshot entry equals its live
\* membership and nothing was edited since its last snapshot update.
SpuriouslyDirty(g) ==
    /\ g \in unsynced_groups
    /\ g \in DOMAIN group_membership_snapshot
    /\ group_membership_snapshot[g] = Live(g)
    /\ g \notin detector.edited

\* C32: a group is flagged while its snapshot entry equals its live
\* membership and nothing was edited since its update only when snapshot
\* updates may run inside a detection; with serialized access no such state
\* is reached.
C32_RaceNeedsInterleaving ==
    \A g \in Groups : SpuriouslyDirty(g) => ~detector.serial

\* A merge update of G1 ran between the comparison and the flagging of G1.
C32_Witness ==
    /\ ~detector.serial
    /\ detector.during = "flag"
    /\ SpuriouslyDirty("G1")
    /\ last.op = "detect"

\* The tick about to run is unsuppressed and carries one record, a transform
\* without geometry, of the selected sole member of a tracked group that is in
\* step with its snapshot entry and not flagged.
SoleMemberMoved(obj, g) ==
    /\ ~is_performing_classification
    /\ updates = <<UpdateRecord(obj, FALSE, TRUE)>>
    /\ obj \in selected_objects
    /\ g \in sync_state_keys
    /\ Live(g) = {obj}
    /\ g \in DOMAIN group_membership_snapshot
    /\ group_membership_snapshot[g] = {obj}
    /\ g \notin unsynced_groups

\* C33: moving an object whose scale and rotation are still the ones the
\* engine wrote, the sole member of its tracked group, does not flag the
\* group on the tick after the suppressed one.
C33_WriteBackNotAttributed ==
    [][\A obj \in Objects, g \in Groups :
          (last'.op = "tick" /\ SoleMemberMoved(obj, g) /\ obj \in engine_written)
              => g \notin unsynced_groups']_vars

\* C34: a scene load leaves no suppression pending: after load-post the
\* flag is clear, so the first tick of the loaded scene runs both triggers.
C34_LoadClearsSuppression ==
    last.op = "load_post" => ~is_performing_classification

\* C35: a drop request answered with ok removes every orphan named in it
\* from the registry, the snapshot and the unsynced set and clears its
\* colour, whatever count the answer carries, zero and counts below the
\* number of names included.
C35_CountNotPerName ==
    [][(last'.op = "tick" /\ tick'.orphans # {} /\ tick'.dropped >= 0) =>
          \A g \in tick'.orphans :
              /\ g \notin sync_state_keys'
              /\ g \notin DOMAIN group_membership_snapshot'
              /\ g \notin unsynced_groups'
              /\ g \in DOMAIN collections => color_tag'[g] = "NONE"]_vars

\* Two orphans were sent, the engine answered ok with a count of zero, and
\* both are gone from the registry.
C35_Witness ==
    /\ last.op = "tick"
    /\ tick.orphans = {"G1", "G2"}
    /\ tick.reply = "ok"
    /\ tick.dropped = 0
    /\ sync_state_keys = {}

\* Position among the commands written of the one whose reply is the next
\* line to be read: the engine answers in order, one line per command.
NextUnread == answered - Len(stdout_lines) + 1

\* C36: a blocking send returns the first line it reads, the reply to the
\* oldest command whose reply has not been read, whatever its id; when that
\* is an earlier command, the sender's own reply is not read by this call.
C36_SendTakesOldestReply ==
    [][(pc = "reading" /\ result'.op = "send" /\ result'.kind = "returned") =>
          /\ Len(consumed') = 1
          /\ result'.value[1].id = stdin_lines[NextUnread]
          /\ NextUnread < Len(stdin_lines) => NextUnread' <= Len(stdin_lines)]_vars

\* Command 1 was sent without waiting, command 2 with a blocking send: the
\* send returned the reply to command 1 and the reply to command 2 is the
\* next line in the stream.
C36_Witness ==
    /\ result = [op |-> "send", kind |-> "returned", value |-> <<Line("object", 1, "true")>>]
    /\ stdin_lines = <<1, 2>>
    /\ stdout_lines = <<Line("object", 2, "true")>>
    /\ awaited = {}

Terminals(lines) == {i \in 1..Len(lines) : lines[i].ok # "absent"}

\* Position among the commands written of the one whose terminal line is the
\* next terminal line in the stream.
NextTerminal == answered - Cardinality(Terminals(stdout_lines)) + 1

\* C37: a send that reads a line that is not JSON raises at that line and
\* reads no further, so what follows it stays in the stream; and a send that
\* returns has read the oldest unread terminal line, the one of an earlier
\* command when that command's send stopped short of it.
C37_MalformedLosesAlignment ==
    [][/\ (/\ pc = "reading" /\ Len(consumed') = Len(consumed) + 1
           /\ stdout_lines # << >> /\ Head(stdout_lines).kind = "malformed")
            => /\ pc' = "idle"
               /\ result' = [op |-> "send", kind |-> "raised", value |-> << >>]
               /\ stdout_lines' = Tail(stdout_lines)
       /\ (pc = "reading" /\ result'.op = "send" /\ result'.kind = "returned")
            => /\ result'.value[1].id = stdin_lines[NextTerminal]
               /\ NextTerminal < Len(stdin_lines) => NextTerminal' <= Len(stdin_lines)]_vars

\* The send of command 1 stopped short of its terminal line, and the send of
\* command 2 returned that line.
C37_Witness ==
    /\ result = [op |-> "send", kind |-> "returned", value |-> <<Line("object", 1, "true")>>]
    /\ stdin_lines = <<1, 2>>
    /\ consumed = <<Line("object", 1, "true")>>
    /\ pc = "idle"

\* C38: between calls of the supervisor the running flag is set exactly when
\* a process handle is held.
C38_FlagIffHandle ==
    is_running_flag <=> process # "none"

\* A launch that raised, right after a stop(): neither flag nor handle.
C38_Witness ==
    /\ last.op = "start" /\ last.names[1] = "stop"
    /\ result.kind = "spawn_error"
    /\ ~is_running_flag /\ process = "none"
    /\ signals = << >>

\* C39: when start() returns True the engine is running: the flag is set,
\* the handle is held and the child is alive.
C39_StartedMeansRunning ==
    (last.op = "start" /\ result.value = <<TRUE>>) => is_running(World)

\* C40: on an unsuppressed tick whose one record is a transform of the sole
\* member of a tracked group with a one-member snapshot entry, the group is
\* not flagged when the object has no cached scale and rotation, and is
\* flagged when it has them and its scale or rotation differs from them.
C40_UncachedChangeNotFlagged ==
    [][\A obj \in Objects, g \in Groups :
          (last'.op = "tick" /\ SoleMemberMoved(obj, g))
              => /\ (obj \notin DOMAIN previous_scales
                      /\ obj \notin DOMAIN previous_rotations)
                       => g \notin unsynced_groups'
                 /\ (ScaleDiffers(obj) \/ RotationDiffers(obj))
                       => g \in unsynced_groups']_vars

\* The tick observed A rotated and rescaled by the user for the first time:
\* its values are cached now and G1 is still not flagged.
C40_Witness ==
    /\ last.op = "tick"
    /\ ~tick.suppressed
    /\ tick.records = <<UpdateRecord("A", FALSE, TRUE)>>
    /\ "A" \in selected_objects
    /\ "G1" \in sync_state_keys
    /\ Live("G1") = {"A"}
    /\ "G1" \in DOMAIN group_membership_snapshot
    /\ group_membership_snapshot["G1"] = {"A"}
    /\ "A" \in DOMAIN previous_scales /\ previous_scales["A"] = scale["A"]
    /\ "A" \in DOMAIN previous_rotations /\ previous_rotations["A"] = rotation_quaternion["A"]
    /\ rotation_quaternion["A"] # 0
    /\ "G1" \notin unsynced_groups

====
